---- MODULE Spec2Model ----
(***************************************************************************)
(* Collector / day cache of the HIRI map server                            *)
(* (src/servermapv3/servermapv3.py): the per-key day store                 *)
(* (Days, DayRows, DayFP and the per-day JSONL logs), the pagination       *)
(* cursor and the collector worker.                                        *)
(*                                                                         *)
(* Values.  Python strings are TLA+ strings; Python None is the marker     *)
(* PyNone; a Python float is written as its repr ("12.5").                 *)
(***************************************************************************)
EXTENDS Integers, Sequences, FiniteSets, TLC

\* ------------------------------------------------------------------ bounds

\* page size handed to collector_loop (the limit argument)
Limit == 2
\* the worker stops fetching once the cursor's offset would pass this
MaxOffset == 4
\* process restarts in one behaviour
MaxRestarts == 1
\* lines of a day log that exists before the first start (SpecRecover)
MaxSeedLen == 3
\* threads made by start_collector in one run
MaxThreads == 3

\* ------------------------------------------------------- program constants

\* str(ts)[:10]
DayLen == 10

PyNone == "<None>"

\* ------------------------------------------------------------------ strings

Min(a, b) == IF a <= b THEN a ELSE b

CharAt(s, i) == SubSeq(s, i, i)

\* f"{x}"
Str(x) == IF x = PyNone THEN "None" ELSE x

\* code points of the characters that occur in the model's strings
OrdTable ==
  (" " :> 32) @@ ("%" :> 37) @@ ("," :> 44) @@ ("-" :> 45) @@ ("." :> 46)
  @@ ("0" :> 48) @@ ("1" :> 49) @@ ("2" :> 50) @@ ("3" :> 51) @@ ("4" :> 52)
  @@ ("5" :> 53) @@ ("6" :> 54) @@ ("7" :> 55) @@ ("8" :> 56) @@ ("9" :> 57)
  @@ (":" :> 58) @@ ("N" :> 78) @@ ("T" :> 84) @@ ("V" :> 86) @@ ("Z" :> 90)
  @@ ("a" :> 97) @@ ("e" :> 101) @@ ("l" :> 108) @@ ("n" :> 110)
  @@ ("o" :> 111) @@ ("u" :> 117) @@ ("|" :> 124)

Ord(c) == IF c \in DOMAIN OrdTable THEN OrdTable[c] ELSE 127

\* Python's str <= str: lexicographic by code point
RECURSIVE StrLeqFrom(_, _, _)
StrLeqFrom(a, b, i) ==
  IF i > Len(a) THEN TRUE
  ELSE IF i > Len(b) THEN FALSE
  ELSE IF CharAt(a, i) = CharAt(b, i) THEN StrLeqFrom(a, b, i + 1)
  ELSE Ord(CharAt(a, i)) < Ord(CharAt(b, i))

StrLeq(a, b) == StrLeqFrom(a, b, 1)

StrLess(a, b) == ~StrLeq(b, a)

\* str.strip() (blanks)
RECURSIVE LStrip(_)
LStrip(s) ==
  IF Len(s) > 0 /\ CharAt(s, 1) = " " THEN LStrip(SubSeq(s, 2, Len(s))) ELSE s

RECURSIVE RStrip(_)
RStrip(s) ==
  IF Len(s) > 0 /\ CharAt(s, Len(s)) = " "
  THEN RStrip(SubSeq(s, 1, Len(s) - 1)) ELSE s

Strip(s) == RStrip(LStrip(s))

StartsWith(s, t) == Len(t) <= Len(s) /\ SubSeq(s, 1, Len(t)) = t

\* str.replace(old, new), old not empty: leftmost occurrences, left to right
RECURSIVE Replace(_, _, _)
Replace(s, old, new) ==
  IF Len(s) = 0 THEN ""
  ELSE IF StartsWith(s, old)
       THEN new \o Replace(SubSeq(s, Len(old) + 1, Len(s)), old, new)
       ELSE CharAt(s, 1) \o Replace(SubSeq(s, 2, Len(s)), old, new)

UpperCase == "ABCDEFGHIJKLMNOPQRSTUVWXYZ"
LowerCase == "abcdefghijklmnopqrstuvwxyz"

LowerChar(c) ==
  IF \E i \in 1..Len(UpperCase) : CharAt(UpperCase, i) = c
  THEN CharAt(LowerCase, CHOOSE i \in 1..Len(UpperCase) : CharAt(UpperCase, i) = c)
  ELSE c

\* str.lower()
RECURSIVE Lower(_)
Lower(s) ==
  IF Len(s) = 0 THEN "" ELSE LowerChar(CharAt(s, 1)) \o Lower(SubSeq(s, 2, Len(s)))

Digits == {"0", "1", "2", "3", "4", "5", "6", "7", "8", "9"}

IsDigit(c) == c \in Digits

AllDigits(s) == \A i \in 1..Len(s) : IsDigit(CharAt(s, i))

\* position of the first "." of s, or 0
DotPos(s) ==
  IF \E i \in 1..Len(s) : CharAt(s, i) = "."
  THEN CHOOSE i \in 1..Len(s) :
         CharAt(s, i) = "." /\ \A j \in 1..(i - 1) : CharAt(s, j) # "."
  ELSE 0

Unsigned(s) ==
  IF Len(s) > 0 /\ CharAt(s, 1) \in {"-", "+"} THEN SubSeq(s, 2, Len(s)) ELSE s

IntPart(u) == IF DotPos(u) = 0 THEN u ELSE SubSeq(u, 1, DotPos(u) - 1)

FracPart(u) == IF DotPos(u) = 0 THEN "" ELSE SubSeq(u, DotPos(u) + 1, Len(u))

\* the decimal literals float() accepts: [sign] digits [. digits], one digit
\* at least (exponents, inf and nan are outside the model's inputs)
IsDecimal(s) ==
  LET u == Unsigned(s) IN
    /\ AllDigits(IntPart(u))
    /\ AllDigits(FracPart(u))
    /\ Len(IntPart(u)) + Len(FracPart(u)) > 0

RECURSIVE DropLeadingZeros(_)
DropLeadingZeros(s) ==
  IF Len(s) > 1 /\ CharAt(s, 1) = "0" THEN DropLeadingZeros(SubSeq(s, 2, Len(s)))
  ELSE IF Len(s) = 0 THEN "0" ELSE s

RECURSIVE DropTrailingZeros(_)
DropTrailingZeros(s) ==
  IF Len(s) > 1 /\ CharAt(s, Len(s)) = "0"
  THEN DropTrailingZeros(SubSeq(s, 1, Len(s) - 1))
  ELSE IF Len(s) = 0 THEN "0" ELSE s

\* repr(float(s)) of a decimal literal
FloatRepr(s) ==
  LET u == Unsigned(s)
      i == DropLeadingZeros(IntPart(u))
      f == DropTrailingZeros(FracPart(u))
      neg == CharAt(s, 1) = "-"
  IN  (IF neg THEN "-" ELSE "") \o i \o "." \o f

\* the unit suffixes to_float removes, in its order (the ASCII ones)
UnitTokens == <<"ug/m3", "km/h", "V", "%">>

RECURSIVE StripTokens(_, _)
StripTokens(s, i) ==
  IF i > Len(UnitTokens) THEN s
  ELSE StripTokens(Strip(Replace(s, UnitTokens[i], "")), i + 1)

to_float(x) ==
  IF x = PyNone THEN PyNone
  ELSE LET s == Replace(Strip(x), ",", ".") IN
       IF s = "" \/ Lower(s) \in {"nan", "null", "none"} THEN PyNone
       ELSE LET t == StripTokens(s, 1) IN
            IF IsDecimal(t) THEN FloatRepr(t) ELSE PyNone

\* choose_coords taking each coordinate from SIM7600G when it parses and from
\* the station metadata otherwise
choose_coords_PerField(row) ==
  LET lat == to_float(row.sim_lat)
      lon == to_float(row.sim_lon)
  IN  <<IF lat # PyNone THEN lat ELSE to_float(row.meta_lat),
        IF lon # PyNone THEN lon ELSE to_float(row.meta_lon)>>

choose_coords(row) ==
  LET lat == to_float(row.sim_lat)
      lon == to_float(row.sim_lon)
  IN  IF lat # PyNone /\ lon # PyNone THEN <<lat, lon>>
      ELSE <<to_float(row.meta_lat), to_float(row.meta_lon)>>


\* --------------------------------------------------------------- normalizer

\* A raw row of data.tableData.  isdict is FALSE for an element that is no
\* JSON object; a field the row lacks reads as PyNone (row.get).  Of the
\* float fields only the three that decide plottability are kept.
process_row(row) ==
  [device_code |-> row.codigo_interno,
   time        |-> row.fecha,
   envio_n     |-> row.num_env,
   lat         |-> choose_coords(row)[1],
   lon         |-> choose_coords(row)[2],
   pm25        |-> to_float(row.pm25)]

\* Plottable without the test of pm25
Plottable_NoPm25(row) ==
  /\ choose_coords(row)[1] # PyNone
  /\ choose_coords(row)[2] # PyNone

Plottable(row) ==
  /\ choose_coords(row)[1] # PyNone
  /\ choose_coords(row)[2] # PyNone
  /\ to_float(row.pm25) # PyNone

RECURSIVE process_raw_to_plotted(_)
process_raw_to_plotted(raw_rows) ==
  IF raw_rows = <<>> THEN <<>>
  ELSE LET row == Head(raw_rows)
           rest == process_raw_to_plotted(Tail(raw_rows))
       IN  IF Plottable(row) THEN <<process_row(row)>> \o rest ELSE rest

RECURSIVE extract_rows(_)
extract_rows(tableData) ==
  IF tableData = <<>> THEN <<>>
  ELSE IF Head(tableData).isdict
       THEN <<Head(tableData)>> \o extract_rows(Tail(tableData))
       ELSE extract_rows(Tail(tableData))

\* ---------------------------------------------------------------- day store

\* day_from_time cutting at the month, str(ts)[:7]
day_from_time_Month(ts) ==
  IF ts = PyNone \/ ts = "" THEN PyNone
  ELSE SubSeq(ts, 1, Min(7, Len(ts)))

\* None when ts is None or empty, else str(ts)[:10]
day_from_time(ts) ==
  IF ts = PyNone \/ ts = "" THEN PyNone
  ELSE SubSeq(ts, 1, Min(DayLen, Len(ts)))

\* f"{r.get('time','')}|{r.get('envio_n','')}"
Fingerprint(r) == Str(r.time) \o "|" \o Str(r.envio_n)

FloatFields == {"lat", "lon", "pm25"}

RecFields == {"device_code", "time", "envio_n", "lat", "lon", "pm25"}

Quote == "\""

\* json.dumps of one value: null, a number literal, or a quoted string (the
\* model's strings need no escapes)
JsonToken(f, v) ==
  IF v = PyNone THEN "null"
  ELSE IF f \in FloatFields THEN v
  ELSE Quote \o v \o Quote

\* json.dumps(r, ensure_ascii=False) + "\n": one line of a day log
JsonDumps(r) ==
  [valid |-> TRUE, obj |-> [f \in RecFields |-> JsonToken(f, r[f])]]

\* a line json.loads rejects (cut short, or not JSON at all)
MalformedLine == [valid |-> FALSE, obj |-> [f \in RecFields |-> ""]]

JsonValue(tok) ==
  IF tok = "null" THEN PyNone
  ELSE IF StartsWith(tok, Quote) THEN SubSeq(tok, 2, Len(tok) - 1)
  ELSE FloatRepr(tok)

\* json.loads(line) of a line it accepts
JsonLoads(line) == [f \in RecFields |-> JsonValue(line.obj[f])]

\* the records of the lines of a log that parse, in file order
RECURSIVE ParsedLines(_)
ParsedLines(log) ==
  IF log = <<>> THEN <<>>
  ELSE IF Head(log).valid THEN <<JsonLoads(Head(log))>> \o ParsedLines(Tail(log))
  ELSE ParsedLines(Tail(log))

\* the loop without the test `if fp in fps: continue`
RECURSIVE LoadLines_NoDedup(_, _, _)
LoadLines_NoDedup(lines, rows, fps) ==
  IF lines = <<>> THEN [rows |-> rows, fps |-> fps]
  ELSE LET line == Head(lines) IN
       IF ~line.valid THEN LoadLines_NoDedup(Tail(lines), rows, fps)
       ELSE LET r == JsonLoads(line)
                fp == Fingerprint(r)
            IN  LoadLines_NoDedup(Tail(lines), Append(rows, r), fps \cup {fp})

\* the loop with the try around the whole loop: reading ends at the first
\* line json.loads rejects
RECURSIVE LoadLines_StopAtMalformed(_, _, _)
LoadLines_StopAtMalformed(lines, rows, fps) ==
  IF lines = <<>> THEN [rows |-> rows, fps |-> fps]
  ELSE LET line == Head(lines) IN
       IF ~line.valid THEN [rows |-> rows, fps |-> fps]
       ELSE LET r == JsonLoads(line)
                fp == Fingerprint(r)
            IN  IF fp \in fps THEN LoadLines_StopAtMalformed(Tail(lines), rows, fps)
                ELSE LoadLines_StopAtMalformed(Tail(lines), Append(rows, r),
                                               fps \cup {fp})

\* the loop of load_day_from_disk over the lines of a file
RECURSIVE LoadLines(_, _, _)
LoadLines(lines, rows, fps) ==
  IF lines = <<>> THEN [rows |-> rows, fps |-> fps]
  ELSE LET line == Head(lines) IN
       IF ~line.valid THEN LoadLines(Tail(lines), rows, fps)
       ELSE LET r == JsonLoads(line)
                fp == Fingerprint(r)
            IN  IF fp \in fps THEN LoadLines(Tail(lines), rows, fps)
                ELSE LoadLines(Tail(lines), Append(rows, r), fps \cup {fp})

\* sorted(days): ascending, by insertion
RECURSIVE InsertDay(_, _)
InsertDay(days, d) ==
  IF days = <<>> THEN <<d>>
  ELSE IF StrLeq(Head(days), d) THEN <<Head(days)>> \o InsertDay(Tail(days), d)
  ELSE <<d>> \o days

RECURSIVE SortDays(_)
SortDays(days) ==
  IF days = <<>> THEN <<>> ELSE InsertDay(SortDays(Tail(days)), Head(days))

Range(seq) == {seq[i] : i \in 1..Len(seq)}

RECURSIVE SetToSortedDays(_)
SetToSortedDays(S) ==
  IF S = {} THEN <<>>
  ELSE LET d == CHOOSE x \in S : TRUE IN InsertDay(SetToSortedDays(S \ {d}), d)

\* load_day_from_disk that never reads the file
load_day_from_disk_NoFile(st, day) ==
  IF day \in DOMAIN st.DayRows THEN st
  ELSE [st EXCEPT
          !.DayRows = (day :> <<>>) @@ @,
          !.DayFP   = (day :> {}) @@ @,
          !.Days    = IF day \in Range(@) THEN @ ELSE SortDays(Append(@, day))]

\* The store of one key: st.Days (list), st.DayRows and st.DayFP (functions
\* on the loaded days), st.disk (function on the days that have a log file).
load_day_from_disk(st, day) ==
  IF day \in DOMAIN st.DayRows THEN st
  ELSE LET got == LoadLines(IF day \in DOMAIN st.disk THEN st.disk[day] ELSE <<>>,
                            <<>>, {})
       IN  [st EXCEPT
              !.DayRows = (day :> got.rows) @@ @,
              !.DayFP   = (day :> got.fps) @@ @,
              !.Days    = IF day \in Range(@) THEN @ ELSE SortDays(Append(@, day))]

\* AddRecord without the test `if fp in DayFP[key][d]: continue`
AddRecord_NoFpTest(acc, r) ==
  LET d == day_from_time(r.time) IN
  IF d = PyNone THEN acc
  ELSE LET st1 == load_day_from_disk(acc.st, d)
           fp  == Fingerprint(r)
       IN  [st    |-> [st1 EXCEPT !.DayFP[d] = @ \cup {fp},
                                   !.DayRows[d] = Append(@, r)],
            added |-> IF d \in DOMAIN acc.added
                      THEN [acc.added EXCEPT ![d] = @ + 1]
                      ELSE (d :> 1) @@ acc.added]

\* AddRecord without `DayFP[key][d].add(fp)`
AddRecord_NoMark(acc, r) ==
  LET d == day_from_time(r.time) IN
  IF d = PyNone THEN acc
  ELSE LET st1 == load_day_from_disk(acc.st, d)
           fp  == Fingerprint(r)
       IN  IF fp \in st1.DayFP[d] THEN [acc EXCEPT !.st = st1]
           ELSE [st    |-> [st1 EXCEPT !.DayRows[d] = Append(@, r)],
                 added |-> IF d \in DOMAIN acc.added
                           THEN [acc.added EXCEPT ![d] = @ + 1]
                           ELSE (d :> 1) @@ acc.added]

\* AddRecord with `added_per_day[d] += 1` ahead of the fingerprint test
AddRecord_CountSeen(acc, r) ==
  LET d == day_from_time(r.time) IN
  IF d = PyNone THEN acc
  ELSE LET st1 == load_day_from_disk(acc.st, d)
           fp  == Fingerprint(r)
           cnt == IF d \in DOMAIN acc.added
                  THEN [acc.added EXCEPT ![d] = @ + 1]
                  ELSE (d :> 1) @@ acc.added
       IN  IF fp \in st1.DayFP[d] THEN [st |-> st1, added |-> cnt]
           ELSE [st    |-> [st1 EXCEPT !.DayFP[d] = @ \cup {fp},
                                       !.DayRows[d] = Append(@, r)],
                 added |-> cnt]

\* one turn of add_to_day_cache's first loop: acc.st the store, acc.added the
\* counts per day
AddRecord(acc, r) ==
  LET d == day_from_time(r.time) IN
  IF d = PyNone THEN acc
  ELSE LET st1 == load_day_from_disk(acc.st, d)
           fp  == Fingerprint(r)
       IN  IF fp \in st1.DayFP[d] THEN [acc EXCEPT !.st = st1]
           ELSE [st    |-> [st1 EXCEPT !.DayFP[d] = @ \cup {fp},
                                       !.DayRows[d] = Append(@, r)],
                 added |-> IF d \in DOMAIN acc.added
                           THEN [acc.added EXCEPT ![d] = @ + 1]
                           ELSE (d :> 1) @@ acc.added]

\* AddRecords going through the batch from its end
RECURSIVE AddRecords_LastFirst(_, _)
AddRecords_LastFirst(acc, plotted) ==
  IF plotted = <<>> THEN acc
  ELSE AddRecord(AddRecords_LastFirst(acc, Tail(plotted)), Head(plotted))

\* the first loop of add_to_day_cache, lines 229-239
RECURSIVE AddRecords(_, _)
AddRecords(acc, plotted) ==
  IF plotted = <<>> THEN acc
  ELSE AddRecords(AddRecord(acc, Head(plotted)), Tail(plotted))

\* DayRows[key][d][-n:]
LastN(rows, n) == SubSeq(rows, Len(rows) - Min(n, Len(rows)) + 1, Len(rows))

RECURSIVE DumpAll(_)
DumpAll(rows) ==
  IF rows = <<>> THEN <<>> ELSE <<JsonDumps(Head(rows))>> \o DumpAll(Tail(rows))

\* the second loop: append the last n rows of each touched day to its log
AppendLogs(st, added) ==
  [st EXCEPT !.disk =
     [d \in DOMAIN @ \cup DOMAIN added |->
        (IF d \in DOMAIN @ THEN @[d] ELSE <<>>)
        \o (IF d \in DOMAIN added
            THEN DumpAll(LastN(st.DayRows[d], added[d])) ELSE <<>>)]]

NoCounts == [d \in {} |-> 0]

\* add_to_day_cache(key, plotted): the store afterwards and added_per_day
add_to_day_cache(st, plotted) ==
  LET acc == AddRecords([st |-> st, added |-> NoCounts], plotted)
      st2 == AppendLogs(acc.st, acc.added)
  IN  [st    |-> IF DOMAIN acc.added # {}
                 THEN [st2 EXCEPT !.Days =
                         SetToSortedDays(Range(@) \cup DOMAIN acc.added)]
                 ELSE st2,
       added |-> acc.added]


\* ------------------------------------------------------------ reading a day

RECURSIVE ToInt(_)
ToInt(s) ==
  IF Len(s) = 0 THEN 0
  ELSE 10 * ToInt(SubSeq(s, 1, Len(s) - 1)) + (Ord(CharAt(s, Len(s))) - 48)

\* days since 1970-01-01 of a civil date
DaysFromCivil(y, m, d) ==
  LET y1  == IF m <= 2 THEN y - 1 ELSE y
      era == y1 \div 400
      yoe == y1 - era * 400
      mp  == IF m > 2 THEN m - 3 ELSE m + 9
      doy == (153 * mp + 2) \div 5 + d - 1
      doe == yoe * 365 + yoe \div 4 - yoe \div 100 + doy
  IN  era * 146097 + doe - 719468

\* the forms datetime.fromisoformat takes here: YYYY-MM-DD, and
\* YYYY-MM-DD<sep>HH:MM:SS
IsIso(s) ==
  /\ Len(s) \in {10, 19}
  /\ AllDigits(SubSeq(s, 1, 4)) /\ CharAt(s, 5) = "-"
  /\ AllDigits(SubSeq(s, 6, 7)) /\ CharAt(s, 8) = "-"
  /\ AllDigits(SubSeq(s, 9, 10))
  /\ ToInt(SubSeq(s, 6, 7)) \in 1..12
  /\ ToInt(SubSeq(s, 9, 10)) \in 1..31
  /\ Len(s) = 19 =>
       /\ AllDigits(SubSeq(s, 12, 13)) /\ CharAt(s, 14) = ":"
       /\ AllDigits(SubSeq(s, 15, 16)) /\ CharAt(s, 17) = ":"
       /\ AllDigits(SubSeq(s, 18, 19))
       /\ ToInt(SubSeq(s, 12, 13)) <= 23
       /\ ToInt(SubSeq(s, 15, 16)) <= 59
       /\ ToInt(SubSeq(s, 18, 19)) <= 59

\* datetime.fromisoformat(s).timestamp(), the zone offset taken as 0
IsoTimestamp(s) ==
  DaysFromCivil(ToInt(SubSeq(s, 1, 4)), ToInt(SubSeq(s, 6, 7)),
                ToInt(SubSeq(s, 9, 10))) * 86400
  + (IF Len(s) = 19
     THEN ToInt(SubSeq(s, 12, 13)) * 3600 + ToInt(SubSeq(s, 15, 16)) * 60
          + ToInt(SubSeq(s, 18, 19))
     ELSE 0)

\* api_data's to_epoch(since)
to_epoch(s) ==
  IF s = "" THEN 0
  ELSE IF AllDigits(s) THEN ToInt(s)
  ELSE LET t == Replace(s, "Z", "") IN IF IsIso(t) THEN IsoTimestamp(t) ELSE 0

\* FilterSince with te >= th in place of te > th
RECURSIVE FilterSince_Inclusive(_, _)
FilterSince_Inclusive(rows, th) ==
  IF rows = <<>> THEN <<>>
  ELSE LET r == Head(rows)
           rest == FilterSince_Inclusive(Tail(rows), th)
           ts == IF r.time = PyNone THEN "" ELSE Replace(r.time, "Z", "")
       IN  IF ts # "" /\ IsIso(ts) /\ IsoTimestamp(ts) >= th
           THEN <<r>> \o rest ELSE rest

\* the since filter of api_data: rows whose instant is strictly later
RECURSIVE FilterSince(_, _)
FilterSince(rows, th) ==
  IF rows = <<>> THEN <<>>
  ELSE LET r == Head(rows)
           rest == FilterSince(Tail(rows), th)
           ts == IF r.time = PyNone THEN "" ELSE Replace(r.time, "Z", "")
       IN  IF ts # "" /\ IsIso(ts) /\ IsoTimestamp(ts) > th
           THEN <<r>> \o rest ELSE rest

\* x.get("time") or ""
TimeKey(r) == IF r.time = PyNone THEN "" ELSE r.time

\* rows.sort(key=...): stable, ascending
RECURSIVE InsertByTime(_, _)
InsertByTime(sorted, r) ==
  IF sorted = <<>> THEN <<r>>
  ELSE IF StrLeq(TimeKey(Head(sorted)), TimeKey(r))
       THEN <<Head(sorted)>> \o InsertByTime(Tail(sorted), r)
       ELSE <<r>> \o sorted

RECURSIVE SortByTimeFrom(_, _)
SortByTimeFrom(sorted, rows) ==
  IF rows = <<>> THEN sorted
  ELSE SortByTimeFrom(InsertByTime(sorted, Head(rows)), Tail(rows))

SortByTime(rows) == SortByTimeFrom(<<>>, rows)

\* api_data(mode=day) for one device: the store afterwards and the rows
\* returned.  Without since, rows is the bucket itself and the sort is in
\* place; with since, rows is a new list.
api_data_day(st, day, since) ==
  LET st1  == load_day_from_disk(st, day)
      rows == st1.DayRows[day]
  IN  IF since # ""
      THEN [st |-> st1, rows |-> SortByTime(FilterSince(rows, to_epoch(since)))]
      ELSE [st   |-> [st1 EXCEPT !.DayRows[day] = SortByTime(rows)],
            rows |-> SortByTime(rows)]


\* -------------------------------------------------------------------- state

\* collection keys (project, device, table); K1 is the default device
K1 == <<"18", "HIRIPRO-01", "datos">>
K2 == <<"18", "HIRIPRO-02", "datos">>
\* two keys whose components differ and whose joined names are the same
K3 == <<"18", "HIRI_01", "datos">>
K4 == <<"18_HIRI", "01", "datos">>
Keys == {K1, K2, K3, K4}

\* cache_dir, lines 183-187: the directory name f"{p}_{d}_{t}"
cache_dir(k) == k[1] \o "_" \o k[2] \o "_" \o k[3]

DirOf == [k \in Keys |-> cache_dir(k)]

\* the keys whose directory is the directory of k
SameDir(k) == {j \in Keys : DirOf[j] = DirOf[k]}

VARIABLES
  Days,        \* Days[k]: the sorted list of the days known for k
  DayRows,     \* DayRows[k]: day -> bucket, on the days loaded in memory
  DayFP,       \* DayFP[k]: day -> set of fingerprints, on the same days
  Cursor,      \* Cursor[k], on the keys that have a cursor
  disk,        \* disk[k]: day -> lines of <day>.jsonl, on the existing files
  dirs,        \* the keys whose cache directory exists
  thread,      \* CollectorThreads[k]["thread"]: "none", "alive" or "dead"
  stop,        \* CollectorThreads[k]["stop"].is_set()
  req,         \* the URL of the last request k's worker issued, <<>> if none
  ret,         \* what the last operation returned or did
  boots,       \* process restarts so far
  pool,        \* start_collector calls under way and the threads they made
  cyc,         \* where k's worker stands in its loop, and the cursor it holds
  rd,          \* a reader inside load_day_from_disk, and what it read
  v1,          \* serverMap.py (first iteration): its cache, dedup set and logs
  up           \* the upstream's records of the default device, newest first

vars == <<Days, DayRows, DayFP, Cursor, disk, dirs, thread, stop, req, ret, boots, pool, cyc, rd, v1, up>>

\* the request handlers that may run start_collector at one time
Callers == {"c1", "c2"}

\* pool, for the default device: pc[c] is where caller c stands in
\* start_collector ("idle": not in it, "create": past the liveness test of
\* line 483, "start": past line 487), made[c] the thread c registered;
\* threads[t].state is "new" (made, not started), "started" (in
\* collector_loop before line 400), "bound" (looping) or "ended", and
\* threads[t].watch the event the loop tests (thread t is made with event t);
\* reg is the thread of CollectorThreads[key], 0 if there is no entry; set
\* holds the events that are set; told the threads that were alive when
\* stop_collector set an event.  The specifications in which start_collector
\* is one step leave pool idle and keep the threads in thread and stop.
PoolIdle ==
  [pc |-> [c \in Callers |-> "idle"], made |-> [c \in Callers |-> 0],
   threads |-> <<>>, reg |-> 0, set |-> {}, told |-> {}]

NoDays == [d \in {} |-> <<>>]

NoFP == [d \in {} |-> {}]

NoCursors == [k \in {} |-> 0]

\* build_upstream_url: the request is its key, page size and offset
build_upstream_url(k, limite, offset) == <<k, limite, offset>>

\* the cursor ensure_structs creates; last_ok_ts is "never", or "now" when
\* the latest worker cycle set it, or "before"
NewCursor ==
  [offset |-> 0, pages |-> 0, finished |-> FALSE, last_ok_ts |-> "never",
   last_error |-> PyNone, last_url |-> <<>>]

\* ensure_structs without the test `key not in Cursor`
ensure_structs_Always(cur, k) ==
  [j \in DOMAIN cur \cup {k} |-> IF j = k THEN NewCursor ELSE cur[j]]

ensure_structs(cur, k) == IF k \in DOMAIN cur THEN cur ELSE (k :> NewCursor) @@ cur

\* cyc[k].at is "loop" when k's worker is at the loop test of line 402 (or
\* there is no worker), "fetch" when it has passed the test and taken
\* cur = Cursor[key] (line 403), kept in cyc[k].cur, "stale" when since then
\* purge_cache has removed or replaced Cursor[key], so that cur is a dict
\* the table no longer holds, and "write" when it has run the first loop of
\* add_to_day_cache on the page cyc[k].page and not yet the second, with
\* added_per_day in cyc[k].added.  cyc[k].counted holds the records the
\* latest add_to_day_cache of k appended.  The specifications in which a
\* worker cycle is one step keep every worker at "loop".
NoCycle ==
  [at |-> "loop", cur |-> NewCursor, page |-> <<>>, added |-> [d \in {} |-> 0],
   counted |-> {}]

CycIdle == [k \in Keys |-> NoCycle]

\* rd: a request handler of api_data for the default device that is inside
\* load_day_from_disk: rd.pc is "loaded" when it has found the day absent
\* from DayRows (line 203) and read the file (lines 205-218) into rd.rows and
\* rd.fps, and has not yet stored them (lines 219-220); "idle" otherwise.
RdIdle == [pc |-> "idle", day |-> "", rows |-> <<>>, fps |-> {}]

\* purge_cache, lines 502-510: the cursor a worker holds is no longer
\* Cursor[key]
Orphaned(c, k) ==
  [c EXCEPT ![k].at = IF @ = "fetch" THEN "stale" ELSE @]

StoreOf(k) ==
  [Days |-> Days[k], DayRows |-> DayRows[k], DayFP |-> DayFP[k], disk |-> disk[k]]

SetStore(k, st) ==
  /\ Days' = [Days EXCEPT ![k] = st.Days]
  /\ DayRows' = [DayRows EXCEPT ![k] = st.DayRows]
  /\ DayFP' = [DayFP EXCEPT ![k] = st.DayFP]
  /\ disk' = [j \in Keys |-> IF j \in SameDir(k) THEN st.disk ELSE disk[j]]

\* what the last operation did: op is "ingest" for a worker cycle that called
\* add_to_day_cache (cand: the plotted rows of its page that have a day,
\* added: the counts add_to_day_cache returned), "day" for api_data (day and
\* since: its arguments, rows: the rows it returned), "start" for
\* start_collector, "none" for any other
RetIngest(cand, added) ==
  [op |-> "ingest", cand |-> cand, added |-> added, day |-> "", since |-> "",
   rows |-> <<>>, days |-> <<>>]

RetDay(day, since, rows) ==
  [op |-> "day", cand |-> 0, added |-> [d \in {} |-> 0], day |-> day,
   since |-> since, rows |-> rows, days |-> <<>>]

\* api_day_index: the days it returned
RetIndex(days) ==
  [op |-> "index", cand |-> 0, added |-> [d \in {} |-> 0], day |-> "",
   since |-> "", rows |-> <<>>, days |-> days]

\* start_collector without reset has returned
RetStart ==
  [op |-> "start", cand |-> 0, added |-> [d \in {} |-> 0], day |-> "",
   since |-> "", rows |-> <<>>, days |-> <<>>]

RetNone ==
  [op |-> "none", cand |-> 0, added |-> [d \in {} |-> 0], day |-> "",
   since |-> "", rows |-> <<>>, days |-> <<>>]

\* time passes: a last_ok_ts of "now" becomes "before"
Aged(c) == [c EXCEPT !.last_ok_ts = IF @ = "now" THEN "before" ELSE @]

\* ----------------------------------------------------------------- upstream

T1 == "2025-10-16T10:30:00"
T2 == "2025-10-16T10:29:00"
T3 == "2025-10-17T00:00:05"

RawRow(fecha, env, pm, slat, slon, mlat, mlon) ==
  [isdict |-> TRUE, codigo_interno |-> "HIRIPRO-01", fecha |-> fecha,
   num_env |-> env, pm25 |-> pm, sim_lat |-> slat, sim_lon |-> slon,
   meta_lat |-> mlat, meta_lon |-> mlon]

W1 == RawRow(T1, "7", "12.5", "-33.4", "-70.6", PyNone, PyNone)
\* the timestamp and sequence number of W1, other readings
W2 == RawRow(T1, "7", "40", PyNone, "-70.6", "-33,0", "-70,0")
W3 == RawRow(T2, "6", "7,5 ", "-33.5", "-70.7", PyNone, PyNone)
W4 == RawRow(T3, "8", "9", "", "", "-33.0", "-70.0")
\* not plottable: no PM2.5
W5 == RawRow(T1, "9", "null", "-33.4", "-70.6", PyNone, PyNone)
\* plottable, without a timestamp
W6 == RawRow(PyNone, "10", "3.0", "-33.4", "-70.6", PyNone, PyNone)
\* an element of tableData that is no object
W7 == [RawRow(PyNone, PyNone, PyNone, PyNone, PyNone, PyNone, PyNone)
         EXCEPT !.isdict = FALSE]

\* plottable, with a fecha that is no date
TBad == "sin dato"
W8 == RawRow(TBad, "11", "5.0", "-33.4", "-70.6", PyNone, PyNone)

\* not plottable: each source has one coordinate only
W9 == RawRow(T1, "12", "5.0", "-33.4", PyNone, PyNone, "-70,0")
\* not plottable: a latitude that is no number, and no station metadata
W10 == RawRow(T2, "13", "5.0", "abc", "-70.6", PyNone, PyNone)

RawItems == {W1, W2, W3, W4, W5, W6, W7, W8, W9, W10}

RECURSIVE SeqsUpTo(_, _)
SeqsUpTo(S, n) ==
  IF n = 0 THEN {<<>>}
  ELSE LET shorter == SeqsUpTo(S, n - 1) IN
       shorter \cup {Append(q, x) : q \in {t \in shorter : Len(t) = n - 1}, x \in S}

\* the data.tableData lists a page of at most Limit elements can hold
\* one reading with every combination of a present, missing or non-numeric
\* coordinate of SIM7600G and a present or missing coordinate of the station
\* metadata
CoordRows ==
  {RawRow(T1, "7", "12.5", slat, slon, mlat, mlon) :
     slat \in {"-33.4", PyNone, "abc"}, slon \in {"-70.6", PyNone},
     mlat \in {"-33,0", PyNone}, mlon \in {"-70,0", PyNone}}

CoordPages == {<<w>> : w \in CoordRows}

Pages == SeqsUpTo(RawItems, Limit) \cup CoordPages

\* lines 429-431 (and 457-458) for each page, worked out once
PlottedOfPage == [td \in Pages |-> process_raw_to_plotted(extract_rows(td))]

RowsOfPage == [td \in Pages |-> Len(extract_rows(td))]

\* the days a reader asks for
DayArgs == {"2025-10-16", "2025-10-17"}

SinceArgs == {"", T2}


\* ------------------------------------------------------------------- worker

\* collector_loop is in its loop and has not seen the stop signal
Running(k) == thread[k] = "alive" /\ ~stop[k] /\ k \in DOMAIN Cursor

Paginating(k) == Running(k) /\ ~Cursor[k].finished

HeadPolling(k) == Running(k) /\ Cursor[k].finished

WithDay(plotted) ==
  Cardinality({i \in 1..Len(plotted) : day_from_time(plotted[i].time) # PyNone})

\* PageOk with offset += limit in place of offset += n
PageOk_StepLimit(k, td) ==
  /\ Paginating(k)
  /\ LET offset   == Cursor[k].offset
         url      == build_upstream_url(k, Limit, offset)
         n        == RowsOfPage[td]
         plotted  == PlottedOfPage[td]
         res      == add_to_day_cache(StoreOf(k), plotted)
     IN  /\ offset + n <= MaxOffset
         /\ SetStore(k, res.st)
         /\ Cursor' = [Cursor EXCEPT ![k] =
              [offset |-> offset + Limit, pages |-> @.pages + 1,
               finished |-> (n < Limit), last_ok_ts |-> "now",
               last_error |-> PyNone, last_url |-> url]]
         /\ req' = [req EXCEPT ![k] = url]
         /\ ret' = RetIngest(WithDay(plotted), res.added)
  /\ UNCHANGED <<dirs, thread, stop, boots, pool, cyc, rd, v1, up>>

\* PageOk with finished = (n == 0) in place of finished = (n < limit)
PageOk_FinishOnEmpty(k, td) ==
  /\ Paginating(k)
  /\ LET offset   == Cursor[k].offset
         url      == build_upstream_url(k, Limit, offset)
         n        == RowsOfPage[td]
         plotted  == PlottedOfPage[td]
         res      == add_to_day_cache(StoreOf(k), plotted)
     IN  /\ offset + n <= MaxOffset
         /\ SetStore(k, res.st)
         /\ Cursor' = [Cursor EXCEPT ![k] =
              [offset |-> offset + n, pages |-> @.pages + 1,
               finished |-> (n = 0), last_ok_ts |-> "now",
               last_error |-> PyNone, last_url |-> url]]
         /\ req' = [req EXCEPT ![k] = url]
         /\ ret' = RetIngest(WithDay(plotted), res.added)
  /\ UNCHANGED <<dirs, thread, stop, boots, pool, cyc, rd, v1, up>>

\* lines 405-442: a 200 answer whose data.tableData is the list td
PageOk(k, td) ==
  /\ Paginating(k)
  /\ LET offset   == Cursor[k].offset
         url      == build_upstream_url(k, Limit, offset)
         n        == RowsOfPage[td]
         plotted  == PlottedOfPage[td]
         res      == add_to_day_cache(StoreOf(k), plotted)
     IN  /\ offset + n <= MaxOffset
         /\ SetStore(k, res.st)
         /\ Cursor' = [Cursor EXCEPT ![k] =
              [offset |-> offset + n, pages |-> @.pages + 1,
               finished |-> (n < Limit), last_ok_ts |-> "now",
               last_error |-> PyNone, last_url |-> url]]
         /\ req' = [req EXCEPT ![k] = url]
         /\ ret' = RetIngest(WithDay(plotted), res.added)
  /\ UNCHANGED <<dirs, thread, stop, boots, pool, cyc, rd, v1, up>>

\* a 200 answer whose JSON has no data.tableData (an empty object, a list, a
\* scalar): extract_rows gives no rows
PageNoTable(k) == PageOk(k, <<>>)

\* lines 416-423: HTTP 400 with the no-records payload
PageNoRecords(k) ==
  /\ Paginating(k)
  /\ LET url == build_upstream_url(k, Limit, Cursor[k].offset) IN
       /\ Cursor' = [Cursor EXCEPT ![k] =
            [@ EXCEPT !.finished = TRUE, !.last_ok_ts = "now",
                      !.last_error = PyNone, !.last_url = url]]
       /\ req' = [req EXCEPT ![k] = url]
  /\ ret' = RetNone
  /\ UNCHANGED <<Days, DayRows, DayFP, disk, dirs, thread, stop, boots, pool, cyc, rd, v1, up>>

\* the URL the worker asks for in its current mode
NextUrl(k) ==
  build_upstream_url(k, Limit, IF Cursor[k].finished THEN 0 ELSE Cursor[k].offset)

\* FetchError that also sets the offset back to 0
FetchError_Rewind(k) ==
  /\ Running(k)
  /\ Cursor' = [Cursor EXCEPT ![k] =
       [Aged(@) EXCEPT !.last_error = "RequestException", !.offset = 0]]
  /\ req' = [req EXCEPT ![k] = NextUrl(k)]
  /\ ret' = RetNone
  /\ UNCHANGED <<Days, DayRows, DayFP, disk, dirs, thread, stop, boots, pool, cyc, rd, v1, up>>

\* FetchError that also ends the backfill
FetchError_Finish(k) ==
  /\ Running(k)
  /\ Cursor' = [Cursor EXCEPT ![k] =
       [Aged(@) EXCEPT !.last_error = "RequestException", !.finished = TRUE]]
  /\ req' = [req EXCEPT ![k] = NextUrl(k)]
  /\ ret' = RetNone
  /\ UNCHANGED <<Days, DayRows, DayFP, disk, dirs, thread, stop, boots, pool, cyc, rd, v1, up>>

\* FetchError that lets the exception leave the loop
FetchError_Dies(k) ==
  /\ Running(k)
  /\ Cursor' = [Cursor EXCEPT ![k] =
       [Aged(@) EXCEPT !.last_error = "RequestException"]]
  /\ req' = [req EXCEPT ![k] = NextUrl(k)]
  /\ ret' = RetNone
  /\ thread' = [thread EXCEPT ![k] = "dead"]
  /\ UNCHANGED <<Days, DayRows, DayFP, disk, dirs, stop, boots, pool, cyc, rd, v1, up>>

\* lines 473-476: session.get or raise_for_status raised a RequestException
FetchError(k) ==
  /\ Running(k)
  /\ Cursor' = [Cursor EXCEPT ![k] =
       [Aged(@) EXCEPT !.last_error = "RequestException"]]
  /\ req' = [req EXCEPT ![k] = NextUrl(k)]
  /\ ret' = RetNone
  /\ UNCHANGED <<Days, DayRows, DayFP, disk, dirs, thread, stop, boots, pool, cyc, rd, v1, up>>

\* an exception that is no RequestException leaves collector_loop: the thread
\* ends
WorkerDies(k) ==
  /\ Cursor' = [Cursor EXCEPT ![k] = Aged(@)]
  /\ thread' = [thread EXCEPT ![k] = "dead"]
  /\ req' = [req EXCEPT ![k] = NextUrl(k)]
  /\ ret' = RetNone
  /\ UNCHANGED <<Days, DayRows, DayFP, disk, dirs, stop, boots, pool, cyc, rd, v1, up>>

\* a 200 answer whose body is not JSON: the second resp.json() (line 427)
\* raises; the exception is a RequestException or a plain ValueError,
\* depending on the installed requests
PageNotJson(k) ==
  /\ Paginating(k)
  /\ \/ FetchError(k)
     \/ WorkerDies(k)

\* sub in s
Contains(s, sub) ==
  \E i \in 1..(Len(s) - Len(sub) + 1) : SubSeq(s, i, i + Len(sub) - 1) = sub

\* is_no_records_payload without the two lower() calls
is_no_records_payload_CaseSensitive(payload) ==
  IF ~payload.isdict THEN FALSE
  ELSE IF Str(payload.status) # "fail" THEN FALSE
  ELSE LET msg == IF payload.error # PyNone /\ payload.error # ""
                  THEN payload.error
                  ELSE IF payload.message # PyNone THEN payload.message
                  ELSE ""
       IN  Contains(msg, "no hay registros")

\* is_no_records_payload: a dict whose status is "fail" in any case and whose
\* error, or else message, holds "no hay registros" in any case
is_no_records_payload(payload) ==
  IF ~payload.isdict THEN FALSE
  ELSE IF Lower(Str(payload.status)) # "fail" THEN FALSE
  ELSE LET msg == Lower(IF payload.error # PyNone /\ payload.error # ""
                        THEN payload.error
                        ELSE IF payload.message # PyNone THEN payload.message
                        ELSE "")
       IN  Contains(msg, "no hay registros")

Body(status, error, message) ==
  [isdict |-> TRUE, status |-> status, error |-> error, message |-> message]

\* bodies of an HTTP 400 answer: the no-records signal in two spellings, a
\* failure of another kind, another status, and a body that is not JSON
\* (payload stays {})
Bodies400 ==
  {Body("fail", "No hay registros", PyNone),
   Body("FAIL", PyNone, "no hay registros para el dispositivo"),
   Body("fail", "offset invalido", PyNone),
   Body("error", "no hay registros", PyNone),
   Body(PyNone, PyNone, PyNone)}

NoRecordsOfBody == [b \in Bodies400 |-> is_no_records_payload(b)]

\* lines 408-425: a pagination request answered by HTTP 400 with body b: the
\* no-records branch, else raise_for_status raises HTTPError
Page400(k, b) ==
  IF NoRecordsOfBody[b] THEN PageNoRecords(k) ELSE Paginating(k) /\ FetchError(k)

\* a 200 answer whose data is null or whose tableData cannot be iterated:
\* extract_rows raises AttributeError or TypeError (either mode)
BadShape(k) ==
  /\ Running(k)
  /\ WorkerDies(k)

\* HeadOk that sets finished as the paginating branch does
HeadOk_Refinish(k, td) ==
  /\ HeadPolling(k)
  /\ LET plotted == PlottedOfPage[td]
         res     == add_to_day_cache(StoreOf(k), plotted)
     IN  /\ SetStore(k, res.st)
         /\ ret' = RetIngest(WithDay(plotted), res.added)
  /\ Cursor' = [Cursor EXCEPT ![k] =
       [Aged(@) EXCEPT !.finished = (RowsOfPage[td] < Limit)]]
  /\ req' = [req EXCEPT ![k] = build_upstream_url(k, Limit, 0)]
  /\ UNCHANGED <<dirs, thread, stop, boots, pool, cyc, rd, v1, up>>

\* HeadOk that asks for the cursor's offset in place of offset 0
HeadOk_AtOffset(k, td) ==
  /\ HeadPolling(k)
  /\ LET plotted == PlottedOfPage[td]
         res     == add_to_day_cache(StoreOf(k), plotted)
     IN  /\ SetStore(k, res.st)
         /\ ret' = RetIngest(WithDay(plotted), res.added)
  /\ Cursor' = [Cursor EXCEPT ![k] = Aged(@)]
  /\ req' = [req EXCEPT ![k] = build_upstream_url(k, Limit, Cursor[k].offset)]
  /\ UNCHANGED <<dirs, thread, stop, boots, pool, cyc, rd, v1, up>>

\* lines 444-471: head poll, a 200 answer whose data.tableData is td
HeadOk(k, td) ==
  /\ HeadPolling(k)
  /\ LET plotted == PlottedOfPage[td]
         res     == add_to_day_cache(StoreOf(k), plotted)
     IN  /\ SetStore(k, res.st)
         /\ ret' = RetIngest(WithDay(plotted), res.added)
  /\ Cursor' = [Cursor EXCEPT ![k] = Aged(@)]
  /\ req' = [req EXCEPT ![k] = build_upstream_url(k, Limit, 0)]
  /\ UNCHANGED <<dirs, thread, stop, boots, pool, cyc, rd, v1, up>>

\* head poll answered by a 200 without data.tableData, or by a 200 that is
\* not JSON (payload stays {}): no rows
HeadNoTable(k) == HeadOk(k, <<>>)

\* lines 452-454: head poll answered by the no-records payload
HeadNoRecords(k) ==
  /\ HeadPolling(k)
  /\ Cursor' = [Cursor EXCEPT ![k] = Aged(@)]
  /\ req' = [req EXCEPT ![k] = build_upstream_url(k, Limit, 0)]
  /\ ret' = RetNone
  /\ UNCHANGED <<Days, DayRows, DayFP, disk, dirs, thread, stop, boots, pool, cyc, rd, v1, up>>

\* line 402: the loop condition sees the stop signal and the thread ends
WorkerExit(k) ==
  /\ thread[k] = "alive" /\ stop[k]
  /\ cyc[k].at = "loop"
  /\ thread' = [thread EXCEPT ![k] = "dead"]
  /\ ret' = RetNone
  /\ UNCHANGED <<Days, DayRows, DayFP, Cursor, disk, dirs, stop, req, boots, pool, cyc, rd, v1, up>>

\* the days of added_per_day in the order the first loop of add_to_day_cache
\* creates them
RECURSIVE AddedOrder(_, _, _)
AddedOrder(acc, plotted, order) ==
  IF plotted = <<>> THEN order
  ELSE LET acc2 == AddRecord(acc, Head(plotted))
           new  == DOMAIN acc2.added \ DOMAIN acc.added
       IN  AddedOrder(acc2, Tail(plotted),
                      IF new = {} THEN order
                      ELSE Append(order, CHOOSE d \in new : TRUE))

\* lines 229-246 when open() or write() of the w-th log raises OSError: the
\* first loop is done, the logs of the first w - 1 days are written, and
\* add_to_day_cache is left by the exception before line 248
add_to_day_cache_failing(st, plotted, w) ==
  LET acc     == AddRecords([st |-> st, added |-> NoCounts], plotted)
      order   == AddedOrder([st |-> st, added |-> NoCounts], plotted, <<>>)
      written == {order[i] : i \in 1..(w - 1)}
  IN  AppendLogs(acc.st, [d \in written |-> acc.added[d]])

\* a worker cycle, in either mode, whose answer is the page td and whose
\* w-th log write fails: the OSError is no RequestException, leaves
\* collector_loop and ends the thread; the cursor is not updated
IngestDiskFail(k, td, w) ==
  /\ Running(k)
  /\ LET plotted == PlottedOfPage[td]
         acc     == AddRecords([st |-> StoreOf(k), added |-> NoCounts], plotted)
     IN  /\ w \in 1..Cardinality(DOMAIN acc.added)
         /\ SetStore(k, add_to_day_cache_failing(StoreOf(k), plotted, w))
  /\ Cursor' = [Cursor EXCEPT ![k] = Aged(@)]
  /\ thread' = [thread EXCEPT ![k] = "dead"]
  /\ req' = [req EXCEPT ![k] = NextUrl(k)]
  /\ ret' = RetNone
  /\ UNCHANGED <<dirs, stop, boots, pool, cyc, rd, v1, up>>

\* lines 402-408: the loop test finds the event unset, the worker takes
\* cur = Cursor[key] and sends its request
CycleFetch(k) ==
  /\ Running(k)
  /\ cyc[k].at = "loop"
  /\ cyc' = [cyc EXCEPT ![k] = [NoCycle EXCEPT !.at = "fetch", !.cur = Cursor[k]]]
  /\ req' = [req EXCEPT ![k] = NextUrl(k)]
  /\ ret' = RetNone
  /\ UNCHANGED <<Days, DayRows, DayFP, Cursor, disk, dirs, thread, stop, boots, pool, rd, v1, up>>

\* what lines 433-438 (paginating) or nothing (head poll) write to cur
CycleCursor(cur, n, url) ==
  IF cur.finished THEN Aged(cur)
  ELSE [offset |-> cur.offset + n, pages |-> cur.pages + 1,
        finished |-> (n < Limit), last_ok_ts |-> "now",
        last_error |-> PyNone, last_url |-> url]

\* lines 425-439 and 456-471: the 200 answer with the list td arrives, and
\* the worker ingests it and updates cur.  The stop event is not looked at
\* before the next loop test.  add_to_day_cache calls ensure_structs, which
\* makes a new cursor when purge_cache removed Cursor[key]; the updates of a
\* stale cur go to a dict nobody reads.
CycleIngest(k, td) ==
  /\ thread[k] = "alive"
  /\ cyc[k].at \in {"fetch", "stale"}
  /\ LET cur     == cyc[k].cur
         n       == RowsOfPage[td]
         plotted == PlottedOfPage[td]
         res     == add_to_day_cache(StoreOf(k), plotted)
     IN  /\ cur.finished \/ cur.offset + n <= MaxOffset
         /\ SetStore(k, res.st)
         /\ Cursor' = IF cyc[k].at = "stale" THEN ensure_structs(Cursor, k)
                      ELSE [Cursor EXCEPT ![k] = CycleCursor(cur, n, req[k])]
         /\ ret' = RetIngest(WithDay(plotted), res.added)
  /\ cyc' = [cyc EXCEPT ![k] = NoCycle]
  /\ UNCHANGED <<dirs, thread, stop, req, boots, pool, rd, v1, up>>

\* add_to_day_cache, lines 226-239, for the answer td: ensure_structs and the
\* first loop (lazy load, fingerprint test, append) for every record
CycleMemory(k, td) ==
  /\ thread[k] = "alive"
  /\ cyc[k].at = "fetch"
  /\ LET cur     == cyc[k].cur
         plotted == PlottedOfPage[td]
         acc     == AddRecords([st |-> StoreOf(k), added |-> NoCounts], plotted)
     IN  /\ cur.finished \/ cur.offset + RowsOfPage[td] <= MaxOffset
         /\ SetStore(k, acc.st)
         /\ cyc' = [cyc EXCEPT ![k] =
              [at |-> "write", cur |-> cur, page |-> td, added |-> acc.added,
               counted |-> UNION {Range(LastN(acc.st.DayRows[d], acc.added[d])) :
                                    d \in DOMAIN acc.added}]]
  /\ ret' = RetNone
  /\ UNCHANGED <<Cursor, dirs, thread, stop, req, boots, pool, rd, v1, up>>

\* lines 241-249 and 433-438: the second loop writes the last n rows that
\* each day's bucket holds now, Days is updated, and the cycle ends with the
\* cursor update
CycleWrite(k) ==
  /\ thread[k] = "alive"
  /\ cyc[k].at = "write"
  /\ LET added == cyc[k].added
         st2   == AppendLogs(StoreOf(k), added)
     IN  /\ SetStore(k, IF DOMAIN added # {}
                        THEN [st2 EXCEPT !.Days =
                                SetToSortedDays(Range(@) \cup DOMAIN added)]
                        ELSE st2)
         /\ ret' = RetIngest(WithDay(PlottedOfPage[cyc[k].page]), added)
  /\ Cursor' = [Cursor EXCEPT ![k] =
       CycleCursor(cyc[k].cur, RowsOfPage[cyc[k].page], req[k])]
  /\ cyc' = [cyc EXCEPT ![k] = [NoCycle EXCEPT !.counted = cyc[k].counted]]
  /\ UNCHANGED <<dirs, thread, stop, req, boots, pool, rd, v1, up>>

\* ----------------------------------------------------------------- handlers

\* start_collector(..., reset=False), lines 478-489
StartCollector(k) ==
  /\ Cursor' = ensure_structs(Cursor, k)
  /\ dirs' = dirs \cup {k}
  /\ IF thread[k] = "alive"
     THEN UNCHANGED <<thread, stop>>
     ELSE /\ thread' = [thread EXCEPT ![k] = "alive"]
          /\ stop' = [stop EXCEPT ![k] = FALSE]
  /\ ret' = RetStart
  /\ UNCHANGED <<Days, DayRows, DayFP, disk, req, boots, pool, cyc, rd, v1, up>>

\* stop_collector, lines 491-496
StopCollector(k) ==
  /\ stop' = IF thread[k] = "none" THEN stop ELSE [stop EXCEPT ![k] = TRUE]
  /\ ret' = RetNone
  /\ UNCHANGED <<Days, DayRows, DayFP, Cursor, disk, dirs, thread, req, boots, pool, cyc, rd, v1, up>>

\* purge_cache(..., keep_structs=False), lines 498-518 (/admin/purge)
Purge(k) ==
  /\ stop' = IF thread[k] = "none" THEN stop ELSE [stop EXCEPT ![k] = TRUE]
  /\ Days' = [Days EXCEPT ![k] = <<>>]
  /\ DayRows' = [DayRows EXCEPT ![k] = NoDays]
  /\ DayFP' = [DayFP EXCEPT ![k] = NoFP]
  /\ Cursor' = [j \in DOMAIN Cursor \ {k} |-> Cursor[j]]
  /\ disk' = [j \in Keys |-> IF j \in SameDir(k) THEN NoDays ELSE disk[j]]
  /\ dirs' = dirs \cup {k}
  /\ ret' = RetNone
  /\ UNCHANGED <<thread, req, boots, pool, rd, v1, up>>
  /\ cyc' = Orphaned(cyc, k)

\* start_collector(..., reset=True): purge_cache(keep_structs=True), then the
\* liveness test and the start (/admin/reindex?reset=1)
Reset(k) ==
  /\ Days' = [Days EXCEPT ![k] = <<>>]
  /\ DayRows' = [DayRows EXCEPT ![k] = NoDays]
  /\ DayFP' = [DayFP EXCEPT ![k] = NoFP]
  /\ Cursor' = [ensure_structs(Cursor, k) EXCEPT ![k] = NewCursor]
  /\ disk' = [j \in Keys |-> IF j \in SameDir(k) THEN NoDays ELSE disk[j]]
  /\ dirs' = dirs \cup {k}
  /\ IF thread[k] = "alive"
     THEN /\ stop' = [stop EXCEPT ![k] = TRUE]
          /\ UNCHANGED thread
     ELSE /\ thread' = [thread EXCEPT ![k] = "alive"]
          /\ stop' = [stop EXCEPT ![k] = FALSE]
  /\ ret' = RetNone
  /\ UNCHANGED <<req, boots, pool, rd, v1, up>>
  /\ cyc' = Orphaned(cyc, k)

\* api_data with mode=day and a device, lines 785-838
GetDay(k, day, since) ==
  /\ LET res == api_data_day(StoreOf(k), day, since) IN
       /\ SetStore(k, res.st)
       /\ ret' = RetDay(day, since, res.rows)
  /\ Cursor' = ensure_structs(Cursor, k)
  /\ dirs' = dirs \cup {k}
  /\ UNCHANGED <<thread, stop, req, boots, pool, cyc, rd, v1, up>>

\* the process ends and starts again with the module only imported: memory
\* is as at import, the files stay
Restart ==
  /\ boots < MaxRestarts
  /\ boots' = boots + 1
  /\ Days' = [k \in Keys |-> <<>>]
  /\ DayRows' = [k \in Keys |-> NoDays]
  /\ DayFP' = [k \in Keys |-> NoFP]
  /\ Cursor' = NoCursors
  /\ thread' = [k \in Keys |-> "none"]
  /\ stop' = [k \in Keys |-> FALSE]
  /\ req' = [k \in Keys |-> <<>>]
  /\ ret' = RetNone
  /\ pool' = PoolIdle
  /\ cyc' = CycIdle
  /\ rd' = RdIdle
  /\ UNCHANGED <<v1, up>>
  /\ UNCHANGED <<disk, dirs>>

RECURSIVE LoadDays(_, _)
LoadDays(st, days) ==
  IF days = {} THEN st
  ELSE LET d == CHOOSE x \in days : TRUE IN
       LoadDays(load_day_from_disk(st, d), days \ {d})

\* scan_and_load_all_devices for one device directory, lines 536-552
ScanDevice(k) ==
  LoadDays([Days |-> <<>>, DayRows |-> NoDays, DayFP |-> NoFP, disk |-> disk[k]],
           DOMAIN disk[k])

\* the name of a day's log, lines 204 and 243
LogName(day) == day \o ".jsonl"

\* the days api_day_index reads off the directory, lines 766-768: of every
\* name that ends in .jsonl and has ten characters or more, the first ten
DaysOnDisk(files) ==
  {SubSeq(LogName(d), 1, DayLen) :
     d \in {x \in DOMAIN files : Len(LogName(x)) >= DayLen}}

\* lines 767-772: each day not yet in Days[key] is appended, then the list
\* is sorted
RECURSIVE AppendMissing(_, _)
AppendMissing(days, found) ==
  IF found = {} THEN days
  ELSE LET d == CHOOSE x \in found : TRUE IN
       AppendMissing(IF d \in Range(days) THEN days ELSE Append(days, d),
                     found \ {d})

\* api_day_index with a device, lines 759-774
DayIndex(k) ==
  /\ Cursor' = ensure_structs(Cursor, k)
  /\ dirs' = dirs \cup {k}
  /\ LET days == SortDays(AppendMissing(Days[k], DaysOnDisk(disk[k]))) IN
       /\ Days' = [Days EXCEPT ![k] = days]
       /\ ret' = RetIndex(days)
  /\ UNCHANGED <<DayRows, DayFP, disk, thread, stop, req, boots, pool, cyc, rd, v1, up>>

\* api_data (mode=day, a device), lines 816 and 201-218: load_day_from_disk
\* finds the day absent from DayRows and reads its file
ReadOpen(k, day) ==
  /\ rd.pc = "idle"
  /\ day \notin DOMAIN DayRows[k]
  /\ LET got == LoadLines(IF day \in DOMAIN disk[k] THEN disk[k][day] ELSE <<>>,
                          <<>>, {})
     IN  rd' = [pc |-> "loaded", day |-> day, rows |-> got.rows, fps |-> got.fps]
  /\ UNCHANGED <<v1, up>>
  /\ Cursor' = ensure_structs(Cursor, k)
  /\ dirs' = dirs \cup {k}
  /\ ret' = RetNone
  /\ UNCHANGED <<Days, DayRows, DayFP, disk, thread, stop, req, boots, pool, cyc>>

\* lines 219-223 and 817-838: the reader stores what it read as the day's
\* bucket and fingerprint set, whatever they hold by now, and serves the day
ReadStore(k) ==
  /\ rd.pc = "loaded"
  /\ LET st  == StoreOf(k)
         st1 == [st EXCEPT
                   !.DayRows = (rd.day :> rd.rows) @@ @,
                   !.DayFP   = (rd.day :> rd.fps) @@ @,
                   !.Days    = IF rd.day \in Range(@) THEN @
                               ELSE SortDays(Append(@, rd.day))]
         res == api_data_day(st1, rd.day, "")
     IN  /\ SetStore(k, res.st)
         /\ ret' = RetDay(rd.day, "", res.rows)
  /\ rd' = RdIdle
  /\ UNCHANGED <<v1, up>>
  /\ UNCHANGED <<Cursor, dirs, thread, stop, req, boots, pool, cyc>>

\* the process ends and starts again through __main__, lines 1221-1233: every
\* device directory is loaded and gets a collector, the default device if
\* there is none
RestartMain ==
  /\ boots < MaxRestarts
  /\ boots' = boots + 1
  /\ LET found == IF dirs = {} THEN {K1} ELSE dirs IN
       /\ Days' = [k \in Keys |-> IF k \in dirs THEN ScanDevice(k).Days ELSE <<>>]
       /\ DayRows' = [k \in Keys |-> IF k \in dirs THEN ScanDevice(k).DayRows ELSE NoDays]
       /\ DayFP' = [k \in Keys |-> IF k \in dirs THEN ScanDevice(k).DayFP ELSE NoFP]
       /\ Cursor' = [k \in found |-> NewCursor]
       /\ thread' = [k \in Keys |-> IF k \in found THEN "alive" ELSE "none"]
       /\ dirs' = found
  /\ stop' = [k \in Keys |-> FALSE]
  /\ req' = [k \in Keys |-> <<>>]
  /\ ret' = RetNone
  /\ pool' = PoolIdle
  /\ cyc' = CycIdle
  /\ rd' = RdIdle
  /\ UNCHANGED <<v1, up>>
  /\ UNCHANGED disk

\* ------------------------------------------------- start_collector in steps

\* Thread.is_alive(): started and not ended
Alive(th) == th.state \in {"started", "bound"}

LiveThreads(p) == {t \in 1..Len(p.threads) : Alive(p.threads[t])}

\* what `key in CollectorThreads and CollectorThreads[key]["thread"].is_alive()`
\* and CollectorThreads[key]["stop"].is_set() see
RegThread(p) ==
  IF p.reg = 0 THEN "none"
  ELSE IF Alive(p.threads[p.reg]) THEN "alive" ELSE "dead"

RegStop(p) == p.reg \in p.set

\* thread and stop follow the pool
SyncThreads(k) ==
  /\ thread' = [thread EXCEPT ![k] = RegThread(pool')]
  /\ stop' = [stop EXCEPT ![k] = RegStop(pool')]

\* start_collector(reset=False), lines 479-484: ensure_structs and the
\* liveness test; return when the registered thread is alive
StartCheck(k, c) ==
  /\ pool.pc[c] = "idle"
  /\ Cursor' = ensure_structs(Cursor, k)
  /\ dirs' = dirs \cup {k}
  /\ pool' = IF RegThread(pool) = "alive" THEN pool
             ELSE [pool EXCEPT !.pc[c] = "create"]
  /\ SyncThreads(k)
  /\ ret' = RetNone
  /\ UNCHANGED <<Days, DayRows, DayFP, disk, req, boots, cyc, rd, v1, up>>

\* lines 485-487: a new Event and Thread, entered in CollectorThreads
StartRegister(k, c) ==
  /\ pool.pc[c] = "create"
  /\ Len(pool.threads) < MaxThreads
  /\ pool' = [pool EXCEPT
       !.threads = Append(@, [state |-> "new", watch |-> 0]),
       !.reg = Len(pool.threads) + 1,
       !.made[c] = Len(pool.threads) + 1,
       !.pc[c] = "start"]
  /\ SyncThreads(k)
  /\ ret' = RetNone
  /\ UNCHANGED <<Days, DayRows, DayFP, Cursor, disk, dirs, req, boots, cyc, rd, v1, up>>

\* line 488: th.start()
StartThread(k, c) ==
  /\ pool.pc[c] = "start"
  /\ pool' = [pool EXCEPT
       !.threads[pool.made[c]].state = "started",
       !.made[c] = 0,
       !.pc[c] = "idle"]
  /\ SyncThreads(k)
  /\ ret' = RetNone
  /\ UNCHANGED <<Days, DayRows, DayFP, Cursor, disk, dirs, req, boots, cyc, rd, v1, up>>

\* collector_loop, lines 397-400: the thread takes the event that
\* CollectorThreads[key] holds now
WorkerBind(k, t) ==
  /\ t \in 1..Len(pool.threads)
  /\ pool.threads[t].state = "started"
  /\ pool' = [pool EXCEPT !.threads[t] = [state |-> "bound", watch |-> pool.reg]]
  /\ Cursor' = ensure_structs(Cursor, k)
  /\ SyncThreads(k)
  /\ ret' = RetNone
  /\ UNCHANGED <<Days, DayRows, DayFP, disk, dirs, req, boots, cyc, rd, v1, up>>

\* line 402: the loop test finds its event set and the thread ends
WorkerLeave(k, t) ==
  /\ t \in 1..Len(pool.threads)
  /\ pool.threads[t].state = "bound"
  /\ pool.threads[t].watch \in pool.set
  /\ pool' = [pool EXCEPT !.threads[t].state = "ended"]
  /\ SyncThreads(k)
  /\ ret' = RetNone
  /\ UNCHANGED <<Days, DayRows, DayFP, Cursor, disk, dirs, req, boots, cyc, rd, v1, up>>

\* stop_collector, lines 491-496: sets the event of the entry, if any
StopCall(k) ==
  /\ pool' = IF pool.reg = 0 THEN pool
             ELSE [pool EXCEPT !.set = @ \cup {pool.reg},
                               !.told = @ \cup LiveThreads(pool)]
  /\ SyncThreads(k)
  /\ ret' = RetNone
  /\ UNCHANGED <<Days, DayRows, DayFP, Cursor, disk, dirs, req, boots, cyc, rd, v1, up>>

\* ------------------------------------------------- the upstream's dataset

\* The records the upstream holds for the default device: up.rows lists them
\* newest first, as the API pages them (offset 0 is the newest); up.end is
\* how the API answers a request past the last record: "signal" (HTTP 400
\* with the no-records payload) or "empty" (HTTP 200 with an empty list).
\* The specifications that draw pages from a set leave up alone.
UpIdle == [rows |-> <<>>, end |-> "signal"]

\* the records a device sends, oldest first: one more than a page holds
Arrivals == SubSeq(<<W3, W1, W4, W8>>, 1, Min(Limit + 1, 4))

\* the 400 body the API sends past the last record
EndBody == Body("fail", "No hay registros", PyNone)

\* the rows the API returns for limite and offset
Slice(rows, offset, limite) ==
  SubSeq(rows, offset + 1, Min(offset + limite, Len(rows)))

\* the device sends its next record: the upstream puts it at the head
UpArrive ==
  /\ Len(up.rows) < Len(Arrivals)
  /\ up' = [up EXCEPT !.rows = <<Arrivals[Len(up.rows) + 1]>> \o @]
  /\ UNCHANGED <<Days, DayRows, DayFP, Cursor, disk, dirs, thread, stop, req, ret,
                 boots, pool, cyc, rd, v1>>

\* lines 405-442 with the upstream's answer for the cursor's offset
UpFetch(k) ==
  /\ Paginating(k)
  /\ \E td \in {Slice(up.rows, Cursor[k].offset, Limit)} :
       \/ /\ td # <<>> \/ up.end = "empty"
          /\ PageOk(k, td)
       \/ /\ td = <<>>
          /\ up.end = "signal"
          /\ Page400(k, EndBody)

\* lines 444-471 with the upstream's answer for offset 0
UpHead(k) ==
  /\ HeadPolling(k)
  /\ \E td \in {Slice(up.rows, 0, Limit)} :
       \/ /\ td # <<>> \/ up.end = "empty"
          /\ HeadOk(k, td)
       \/ /\ td = <<>>
          /\ up.end = "signal"
          /\ HeadNoRecords(k)

\* ------------------------------------------------ serverMap.py (iteration 1)

\* serverMap.py keeps, for its one key: DayCache[key][day]["plotted"] (cache),
\* DedupSet[key] (dedup) and the files <day>.jsonl of key_dir(key) (disk);
\* boots counts the restarts of that program.
V1Idle == [cache |-> NoDays, dedup |-> {}, disk |-> NoDays, boots |-> 0]

\* position of the first "T" of t from position i on, or 0
RECURSIVE FindT(_, _)
FindT(t, i) ==
  IF i > Len(t) THEN 0 ELSE IF CharAt(t, i) = "T" THEN i ELSE FindT(t, i + 1)

\* serverMap.py lines 211-214: t.split("T", 1)[0], None without a "T"
day_of(r) ==
  IF r.time = PyNone \/ r.time = "" \/ FindT(r.time, 1) = 0 THEN PyNone
  ELSE SubSeq(r.time, 1, FindT(r.time, 1) - 1)

\* f"{time}|{envio_n}|{lat}|{lon}"
ukey(r) ==
  Str(r.time) \o "|" \o Str(r.envio_n) \o "|" \o Str(r.lat) \o "|" \o Str(r.lon)

\* serverMap.py lines 243-255, one turn of the loop: acc.st the program's
\* state, acc.updated the counts per day
V1AddRow(acc, r) ==
  LET d == day_of(r) IN
  IF d = PyNone \/ ukey(r) \in acc.st.dedup THEN acc
  ELSE [st |-> [acc.st EXCEPT
                  !.dedup = @ \cup {ukey(r)},
                  !.cache = IF d \in DOMAIN @ THEN [@ EXCEPT ![d] = Append(@, r)]
                            ELSE (d :> <<r>>) @@ @],
        updated |-> IF d \in DOMAIN acc.updated
                    THEN [acc.updated EXCEPT ![d] = @ + 1]
                    ELSE (d :> 1) @@ acc.updated]

RECURSIVE V1AddRows(_, _)
V1AddRows(acc, plotted) ==
  IF plotted = <<>> THEN acc
  ELSE V1AddRows(V1AddRow(acc, Head(plotted)), Tail(plotted))

\* [r for r in plotted if day_of(r) == d]
RECURSIVE RowsOfDay(_, _)
RowsOfDay(plotted, d) ==
  IF plotted = <<>> THEN <<>>
  ELSE (IF day_of(Head(plotted)) = d THEN <<Head(plotted)>> ELSE <<>>)
       \o RowsOfDay(Tail(plotted), d)

\* serverMap.py lines 256-261: for every day of updated, append_jsonl of the
\* rows of the batch that have this day
V1Persist(acc, plotted) ==
  [acc.st EXCEPT !.disk =
     [d \in DOMAIN @ \cup DOMAIN acc.updated |->
        (IF d \in DOMAIN @ THEN @[d] ELSE <<>>)
        \o (IF d \in DOMAIN acc.updated
            THEN DumpAll(RowsOfDay(plotted, d)) ELSE <<>>)]]

\* serverMap.py lines 239-262
serverMap_add_to_day_cache(st, plotted) ==
  LET acc == V1AddRows([st |-> st, updated |-> NoCounts], plotted)
  IN  [st |-> V1Persist(acc, plotted), updated |-> acc.updated]

\* serverMap.py lines 264-279, for one file: the rows of its lines that parse
\* and whose key is new go to the day's list
RECURSIVE V1LoadRows(_, _, _)
V1LoadRows(st, day, rows) ==
  IF rows = <<>> THEN st
  ELSE LET r == Head(rows) IN
       V1LoadRows(IF ukey(r) \in st.dedup THEN st
                  ELSE [st EXCEPT
                          !.dedup = @ \cup {ukey(r)},
                          !.cache = IF day \in DOMAIN @
                                    THEN [@ EXCEPT ![day] = Append(@, r)]
                                    ELSE (day :> <<r>>) @@ @],
                  day, Tail(rows))

\* the loop over the files of key_dir(key), in the order of their names
RECURSIVE V1LoadFiles(_, _)
V1LoadFiles(st, days) ==
  IF days = <<>> THEN st
  ELSE V1LoadFiles(V1LoadRows(st, Head(days), ParsedLines(st.disk[Head(days)])),
                   Tail(days))

\* serverMap.py lines 300-314: a 200 answer with the list td; the rows are
\* normalised as in servermapv3.py (a row of serverMap.py has no device_code,
\* which no step here reads)
V1Ingest(td) ==
  /\ v1' = serverMap_add_to_day_cache(v1, PlottedOfPage[td]).st
  /\ UNCHANGED <<Days, DayRows, DayFP, Cursor, disk, dirs, thread, stop, req, ret,
                 boots, pool, cyc, rd, up>>

\* serverMap.py ends and starts again: collector_loop begins with
\* ensure_structs and load_days_from_disk (lines 289-290)
V1Restart ==
  /\ v1.boots < MaxRestarts
  /\ v1' = [V1LoadFiles([v1 EXCEPT !.cache = NoDays, !.dedup = {}],
                        SetToSortedDays(DOMAIN v1.disk))
              EXCEPT !.boots = v1.boots + 1]
  /\ UNCHANGED <<Days, DayRows, DayFP, Cursor, disk, dirs, thread, stop, req, ret,
                 boots, pool, cyc, rd, up>>

\* ------------------------------------------------------------ specification

\* a first start on an empty cache directory
Init ==
  /\ Days = [k \in Keys |-> <<>>]
  /\ DayRows = [k \in Keys |-> NoDays]
  /\ DayFP = [k \in Keys |-> NoFP]
  /\ Cursor = NoCursors
  /\ disk = [k \in Keys |-> NoDays]
  /\ dirs = {}
  /\ thread = [k \in Keys |-> "none"]
  /\ stop = [k \in Keys |-> FALSE]
  /\ req = [k \in Keys |-> <<>>]
  /\ ret = RetNone
  /\ boots = 0
  /\ pool = PoolIdle
  /\ cyc = CycIdle
  /\ rd = RdIdle
  /\ v1 = V1Idle
  /\ up = UpIdle

\* the pages of the cursor specification: a storable row, a row that is not
\* plottable and an element that is no object
CursorPages == SeqsUpTo({W1, W5, W7}, Limit)

\* The worker and its cursor, one device in use: every outcome of a worker
\* cycle and every handler.
Next ==
  \/ \E td \in CursorPages : PageOk(K1, td)
  \/ PageNoTable(K1)
  \/ PageNoRecords(K1)
  \/ \E b \in Bodies400 : Page400(K1, b)
  \/ PageNotJson(K1)
  \/ \E td \in CursorPages : HeadOk(K1, td)
  \/ HeadNoTable(K1)
  \/ HeadNoRecords(K1)
  \/ FetchError(K1)
  \/ BadShape(K1)
  \/ StartCollector(K1)
  \/ StopCollector(K1)
  \/ WorkerExit(K1)
  \/ Purge(K1)
  \/ Reset(K1)
  \/ \E day \in DayArgs : GetDay(K1, day, "")
  \/ Restart
  \/ RestartMain

Spec == Init /\ [][Next]_vars

\* the pages of the store specification: rows of two days, two of them with
\* one fingerprint, and a row without a timestamp
StorePages == SeqsUpTo({W1, W2, W3, W4, W6}, Limit)

\* The day store, one device in use: ingests, reads of a day and restarts.
NextStore ==
  \/ StartCollector(K1)
  \/ \E td \in StorePages : PageOk(K1, td)
  \/ PageNoRecords(K1)
  \/ \E td \in StorePages : HeadOk(K1, td)
  \/ \E day \in DayArgs, since \in SinceArgs : GetDay(K1, day, since)
  \/ Restart
  \/ RestartMain

SpecStore == Init /\ [][NextStore]_vars

\* the lines a log written by an earlier run can hold: the rows W1, W2, W3
\* as plotted, and a line cut short
SeedLines ==
  {JsonDumps(process_row(W1)), JsonDumps(process_row(W2)),
   JsonDumps(process_row(W3)), MalformedLine}

\* a start on a cache directory that holds a log of 2025-10-16 already (written
\* by an earlier run, or by serverMap.py, which appends the rows of a batch
\* whether new or not)
InitRecover ==
  /\ Days = [k \in Keys |-> <<>>]
  /\ DayRows = [k \in Keys |-> NoDays]
  /\ DayFP = [k \in Keys |-> NoFP]
  /\ Cursor = NoCursors
  /\ \E log \in SeqsUpTo(SeedLines, MaxSeedLen) \ {<<>>} :
       disk = [k \in Keys |-> IF k = K1 THEN ("2025-10-16" :> log) ELSE NoDays]
  /\ dirs = {K1}
  /\ thread = [k \in Keys |-> "none"]
  /\ stop = [k \in Keys |-> FALSE]
  /\ req = [k \in Keys |-> <<>>]
  /\ ret = RetNone
  /\ boots = 0
  /\ pool = PoolIdle
  /\ cyc = CycIdle
  /\ rd = RdIdle
  /\ v1 = V1Idle
  /\ up = UpIdle

\* the pages of the recovery specification: at most one row
RecoverPages == SeqsUpTo({W1, W3, W4}, 1)

NextRecover ==
  \/ StartCollector(K1)
  \/ \E td \in RecoverPages : PageOk(K1, td)
  \/ \E td \in RecoverPages : HeadOk(K1, td)
  \/ \E day \in DayArgs, since \in SinceArgs : GetDay(K1, day, since)
  \/ Restart
  \/ RestartMain

SpecRecover == InitRecover /\ [][NextRecover]_vars

\* the pages of the network specification: full, short and empty pages of
\* one storable row
NetPages == SeqsUpTo({W1}, Limit)

\* The worker against an upstream that is at times unreachable: every cycle
\* either fails in the request (connection failure, timeout, 429 or 5xx
\* after the retries, a 400 that is not the signal) or gets a well-formed
\* answer; the collector is started and stopped at any time.
NextNet ==
  \/ StartCollector(K1)
  \/ StopCollector(K1)
  \/ WorkerExit(K1)
  \/ FetchError(K1)
  \/ \E b \in Bodies400 : Page400(K1, b)
  \/ \E td \in NetPages : PageOk(K1, td)
  \/ \E td \in NetPages : HeadOk(K1, td)
  \/ HeadNoRecords(K1)

SpecNet == Init /\ [][NextNet]_vars

\* the pages of the disk specification: rows of two days
DiskPages == SeqsUpTo({W1, W4}, Limit)

\* The worker on a disk that at times refuses a write: cycles that store
\* their page, cycles whose log write fails, and a collector started again
\* after its worker ended.
NextDisk ==
  \/ StartCollector(K1)
  \/ \E td \in DiskPages : PageOk(K1, td)
  \/ PageNoRecords(K1)
  \/ \E td \in DiskPages : HeadOk(K1, td)
  \/ \E td \in DiskPages, w \in 1..2 : IngestDiskFail(K1, td, w)
  \/ FetchError(K1)

SpecDisk == Init /\ [][NextDisk]_vars

\* /admin/purge while the worker is between its loop test and its ingest:
\* a worker cycle is two steps, the request and the ingest of the answer.
PurgePages == SeqsUpTo({W1, W4}, Limit)

NextPurge ==
  \/ StartCollector(K1)
  \/ CycleFetch(K1)
  \/ \E td \in PurgePages : CycleIngest(K1, td)
  \/ WorkerExit(K1)
  \/ Purge(K1)

SpecPurge == Init /\ [][NextPurge]_vars

\* Collectors of two devices in one process, whose keys give one directory
\* name.
TwoKeys == {K3, K4}

TwoPages == SeqsUpTo({W1}, Limit)

NextTwo ==
  \/ \E k \in TwoKeys : StartCollector(k)
  \/ \E k \in TwoKeys : StopCollector(k)
  \/ \E k \in TwoKeys : WorkerExit(k)
  \/ \E k \in TwoKeys : Purge(k)
  \/ \E k \in TwoKeys, td \in TwoPages : PageOk(k, td)
  \/ \E k \in TwoKeys, td \in TwoPages : HeadOk(k, td)

SpecTwo == Init /\ [][NextTwo]_vars

\* The two devices of TwoKeys with their workers paginating and a reader
\* asking for a day of either.
NextShare ==
  \/ \E k \in TwoKeys : StartCollector(k)
  \/ \E k \in TwoKeys, td \in TwoPages : PageOk(k, td)
  \/ \E k \in TwoKeys, d \in DayArgs : GetDay(k, d, "")

SpecShare == Init /\ [][NextShare]_vars

\* A reader polling a day with since, as the map page does, while the worker
\* stores pages: since is an ISO instant, the same with a Z, or epoch seconds.
T2Epoch == "1760610540"

LiveSince == {T2, T2 \o "Z", T2Epoch, T1}

SincePages == SeqsUpTo({W1, W3, W4}, Limit)

NextSince ==
  \/ StartCollector(K1)
  \/ \E td \in SincePages : PageOk(K1, td)
  \/ \E td \in SincePages : HeadOk(K1, td)
  \/ \E day \in DayArgs, since \in LiveSince : GetDay(K1, day, since)

SpecSince == Init /\ [][NextSince]_vars

\* The day list: a worker storing pages, among them records whose fecha is
\* no date, readers asking for days and for the index, and restarts, after
\* which the days are on disk and not in memory.
IndexPages == SeqsUpTo({W1, W4, W8}, Limit)

NextIndex ==
  \/ StartCollector(K1)
  \/ \E td \in IndexPages : PageOk(K1, td)
  \/ \E td \in IndexPages : HeadOk(K1, td)
  \/ \E day \in DayArgs : GetDay(K1, day, "")
  \/ DayIndex(K1)
  \/ Restart

SpecIndex == Init /\ [][NextIndex]_vars

\* Pages in which two records have one timestamp and one envio_n and differ
\* in their readings and coordinates.
PairPages == SeqsUpTo({W1, W2, W3}, Limit)

NextPair ==
  \/ StartCollector(K1)
  \/ \E td \in PairPages : PageOk(K1, td)
  \/ \E td \in PairPages : HeadOk(K1, td)
  \/ Restart

SpecPair == Init /\ [][NextPair]_vars

\* /admin/reindex with and without reset=1 against a worker that pages, polls
\* and fails: nobody calls stop_collector or /admin/purge.
ResetPages == SeqsUpTo({W1, W3}, Limit)

NextReset ==
  \/ StartCollector(K1)
  \/ Reset(K1)
  \/ \E td \in ResetPages : PageOk(K1, td)
  \/ \E td \in ResetPages : HeadOk(K1, td)
  \/ FetchError(K1)
  \/ WorkerExit(K1)

SpecReset == Init /\ [][NextReset]_vars

\* Pages that mix plottable rows with rows that lack the primary metric or a
\* coordinate, ingested, read back and reloaded after a restart.
PlotPages == SeqsUpTo({W1, W2, W5, W9, W10}, Limit)

NextPlot ==
  \/ StartCollector(K1)
  \/ \E td \in PlotPages : PageOk(K1, td)
  \/ \E td \in PlotPages : HeadOk(K1, td)
  \/ \E day \in DayArgs : GetDay(K1, day, "")
  \/ Restart

SpecPlot == Init /\ [][NextPlot]_vars

\* The worker ingests pages of one row of CoordRows; between the two loops
\* of add_to_day_cache the row is in cyc[K1].page and what was made of it at
\* the end of the day's bucket.
NextCoord ==
  \/ StartCollector(K1)
  \/ CycleFetch(K1)
  \/ \E td \in CoordPages : CycleMemory(K1, td)
  \/ CycleWrite(K1)

SpecCoord == Init /\ [][NextCoord]_vars

\* A reader's lazy load of a day against the worker's add_to_day_cache for
\* the same key: the load is two steps (read the file, store what was read)
\* and so is the ingest (first loop, second loop), and the steps interleave.
\* After a restart the day is on disk and not in memory.
RacePages == SeqsUpTo({W1, W3}, Limit)

RaceDay == "2025-10-16"

NextRace ==
  \/ StartCollector(K1)
  \/ CycleFetch(K1)
  \/ \E td \in RacePages : CycleMemory(K1, td)
  \/ CycleWrite(K1)
  \/ ReadOpen(K1, RaceDay)
  \/ ReadStore(K1)
  \/ Restart

SpecRace == Init /\ [][NextRace]_vars

\* A reader's lazy load of a day whose log was left by an earlier run of the
\* program: lines that parse, repeated lines and lines that do not parse.
NextLoad ==
  \/ ReadOpen(K1, RaceDay)
  \/ ReadStore(K1)
  \/ Restart

SpecLoad == InitRecover /\ [][NextLoad]_vars

\* serverMap.py ingesting pages that repeat records of earlier pages, and
\* restarting.
V1Pages == SeqsUpTo({W1, W3, W4}, Limit)

NextV1 ==
  \/ \E td \in V1Pages : V1Ingest(td)
  \/ V1Restart

SpecV1 == Init /\ [][NextV1]_vars

\* The worker of the default device against an upstream dataset that the
\* device adds to at any moment, before, during and after the backfill; a
\* request may fail.  Python runs the worker thread as long as it lives, a
\* request ends by an answer or by a timeout, and __main__ starts the
\* collector of the default device: a cycle that can get an answer is not
\* put off forever.
InitUp ==
  /\ Days = [k \in Keys |-> <<>>]
  /\ DayRows = [k \in Keys |-> NoDays]
  /\ DayFP = [k \in Keys |-> NoFP]
  /\ Cursor = NoCursors
  /\ disk = [k \in Keys |-> NoDays]
  /\ dirs = {}
  /\ thread = [k \in Keys |-> "none"]
  /\ stop = [k \in Keys |-> FALSE]
  /\ req = [k \in Keys |-> <<>>]
  /\ ret = RetNone
  /\ boots = 0
  /\ pool = PoolIdle
  /\ cyc = CycIdle
  /\ rd = RdIdle
  /\ v1 = V1Idle
  /\ \E e \in {"signal", "empty"} : up = [rows |-> <<>>, end |-> e]

NextUp ==
  \/ StartCollector(K1)
  \/ UpArrive
  \/ UpFetch(K1)
  \/ UpHead(K1)
  \/ FetchError(K1)

\* line 476 and line 471: after a failed or a finished cycle the loop sleeps
\* and asks again, so a worker that keeps paginating gets its page answered:
\* weak fairness of UpFetch, whose enabling condition is Paginating (a page
\* answer always changes pages or finished)
FairFetch == []<>(~Paginating(K1)) \/ []<><<UpFetch(K1)>>_vars

\* the same for the head poll: a worker that keeps polling the head gets an
\* answer that is not a failure, again and again
FairHead == []<>(~HeadPolling(K1)) \/ []<><<UpHead(K1)>>_vars

SpecUp ==
  /\ InitUp
  /\ [][NextUp]_vars
  /\ WF_vars(StartCollector(K1))
  /\ FairFetch
  /\ FairHead

\* start_collector and stop_collector called from request handlers that
\* run at the same time, and the threads they make.  Each caller goes on
\* with its call, and each thread reaches its loop and tests its event
\* again and again (every fetch and every sleep returns).
NextStart ==
  \/ \E c \in Callers : StartCheck(K1, c)
  \/ \E c \in Callers : StartRegister(K1, c)
  \/ \E c \in Callers : StartThread(K1, c)
  \/ \E t \in 1..MaxThreads : WorkerBind(K1, t)
  \/ \E t \in 1..MaxThreads : WorkerLeave(K1, t)
  \/ StopCall(K1)

SpecStart ==
  /\ Init
  /\ [][NextStart]_vars
  /\ \A c \in Callers : WF_vars(StartThread(K1, c))
  /\ \A t \in 1..MaxThreads :
       WF_vars(WorkerBind(K1, t)) /\ WF_vars(WorkerLeave(K1, t))

\* --------------------------------------------------------------- properties

\* the positions <<day, index>> of the records that k holds in memory
Slots(k) ==
  UNION {{<<d, i>> : i \in 1..Len(DayRows[k][d])} : d \in DOMAIN DayRows[k]}

RowAt(k, p) == DayRows[k][p[1]][p[2]]

\* T[0:10]
DayPrefix(t) == SubSeq(t, 1, Min(10, Len(t)))

RECURSIVE SumCounts(_)
SumCounts(added) ==
  IF DOMAIN added = {} THEN 0
  ELSE LET d == CHOOSE x \in DOMAIN added : TRUE IN
       added[d] + SumCounts([e \in DOMAIN added \ {d} |-> added[e]])

\* how many of the records rows have the fingerprint fp
CountFP(rows, fp) == Cardinality({i \in 1..Len(rows) : Fingerprint(rows[i]) = fp})

LogOf(k, d) == IF d \in DOMAIN disk[k] THEN disk[k][d] ELSE <<>>

\* C1: the in-memory buckets of a key never hold two records with the same
\* fingerprint, in the same day or in two days, whatever ingests, lazy loads
\* and restarts came before.
C1_NoDuplicateFingerprint ==
  \A k \in Keys : \A p, q \in Slots(k) :
    p # q => Fingerprint(RowAt(k, p)) # Fingerprint(RowAt(k, q))

\* after a restart, an ingest was offered more records than it added, and
\* both days hold records
C1_Witness ==
  /\ boots = 1
  /\ ret.op = "ingest" /\ ret.cand > SumCounts(ret.added)
  /\ \A d \in DayArgs : d \in DOMAIN DayRows[K1] /\ DayRows[K1][d] # <<>>

\* C2: from every reachable state and for every page, a second
\* add_to_day_cache of the same records changes neither buckets nor logs
\* (nor the day list or the fingerprint sets) and reports no additions.
C2_IdempotentIngest ==
  \A td \in StorePages :
    LET plotted == PlottedOfPage[td]
        once    == add_to_day_cache(StoreOf(K1), plotted)
        twice   == add_to_day_cache(once.st, plotted)
    IN  twice.st = once.st /\ twice.added = NoCounts

\* a worker cycle ingested a page of two records with a day and added none
C2_Witness ==
  /\ boots = 0
  /\ ret.op = "ingest" /\ ret.cand = Limit /\ ret.added = NoCounts
  /\ K1 \in DOMAIN Cursor /\ Cursor[K1].finished

\* the fingerprints a day of k knows before an ingest: those of its bucket
\* when loaded, else those of its log
KnownFP(k, d) ==
  {Fingerprint(r) : r \in Range(IF d \in DOMAIN DayRows[k] THEN DayRows[k][d]
                                 ELSE ParsedLines(LogOf(k, d)))}

\* plotted[i] is a record add_to_day_cache accepts in the current state
Accepted(k, plotted, i) ==
  /\ plotted[i].time # PyNone /\ plotted[i].time # ""
  /\ Fingerprint(plotted[i]) \notin KnownFP(k, DayPrefix(plotted[i].time))
  /\ \A j \in 1..(i - 1) : Fingerprint(plotted[j]) # Fingerprint(plotted[i])

\* C3: every bucket and every log holds only records of its own day T[0:10],
\* and a record add_to_day_cache accepts is afterwards in the bucket and in
\* the log of its day, and in no other bucket.
C3_DayPartition ==
  /\ \A k \in Keys : \A p \in Slots(k) :
       /\ RowAt(k, p).time # PyNone
       /\ DayPrefix(RowAt(k, p).time) = p[1]
  /\ \A k \in Keys : \A d \in DOMAIN disk[k] :
       \A r \in Range(ParsedLines(disk[k][d])) :
         r.time # PyNone /\ DayPrefix(r.time) = d
  /\ \A td \in StorePages :
       LET plotted == PlottedOfPage[td]
           res     == add_to_day_cache(StoreOf(K1), plotted)
       IN  \A i \in 1..Len(plotted) :
             Accepted(K1, plotted, i) =>
               LET d == DayPrefix(plotted[i].time) IN
               /\ d \in DOMAIN res.st.DayRows
               /\ plotted[i] \in Range(res.st.DayRows[d])
               /\ d \in DOMAIN res.st.disk
               /\ plotted[i] \in Range(ParsedLines(res.st.disk[d]))
               /\ \A e \in DOMAIN res.st.DayRows \ {d} :
                    plotted[i] \notin Range(res.st.DayRows[e])

\* an ingest added records to both days, and both logs exist
C3_Witness ==
  /\ ret.op = "ingest"
  /\ \A d \in DayArgs : d \in DOMAIN ret.added /\ d \in DOMAIN disk[K1]
  /\ \A d \in DayArgs : d \in DOMAIN DayRows[K1] /\ DayRows[K1][d] # <<>>

\* the records of a log in file order, every record dropped whose fingerprint
\* occurred earlier in the file
RECURSIVE FirstFrom(_, _)
FirstFrom(recs, i) ==
  IF i > Len(recs) THEN <<>>
  ELSE (IF \E j \in 1..(i - 1) : Fingerprint(recs[j]) = Fingerprint(recs[i])
        THEN <<>> ELSE <<recs[i]>>) \o FirstFrom(recs, i + 1)

FirstOccurrences(log) == FirstFrom(ParsedLines(log), 1)

PosIn(base, r) == CHOOSE i \in 1..Len(base) : base[i] = r

\* rows holds the records of base (all different) ascending by timestamp,
\* records of one timestamp in the order they have in base
IsStableTimeSort(rows, base) ==
  /\ Len(rows) = Len(base)
  /\ Range(rows) = Range(base)
  /\ \A i, j \in 1..Len(rows) :
       i < j => /\ StrLeq(TimeKey(rows[i]), TimeKey(rows[j]))
                /\ TimeKey(rows[i]) = TimeKey(rows[j]) =>
                     PosIn(base, rows[i]) < PosIn(base, rows[j])

DiskFP(k, d) == {Fingerprint(r) : r \in Range(ParsedLines(LogOf(k, d)))}

\* a process start leaves no cursor but new ones, a cursor that appears is
\* new, and the first request of a worker is for offset 0
FreshCollector ==
  /\ boots' # boots =>
       \A k \in DOMAIN Cursor' :
         Cursor'[k].offset = 0 /\ ~Cursor'[k].finished /\ Cursor'[k].pages = 0
  /\ \A k \in DOMAIN Cursor' \ DOMAIN Cursor :
       Cursor'[k].offset = 0 /\ ~Cursor'[k].finished /\ Cursor'[k].pages = 0
  /\ \A k \in Keys : (req[k] = <<>> /\ req'[k] # <<>>) => req'[k][3] = 0

\* ingesting a record whose fingerprint is in the log of its day appends no
\* line with that fingerprint and leaves one record with it in the bucket;
\* a page of such records changes no log and reports no additions
NoReadmission ==
  \A td \in StorePages :
    LET plotted == PlottedOfPage[td]
        res     == add_to_day_cache(StoreOf(K1), plotted)
        dated   == {i \in 1..Len(plotted) : plotted[i].time # PyNone}
        known   == {i \in dated : Fingerprint(plotted[i])
                                    \in DiskFP(K1, DayPrefix(plotted[i].time))}
    IN  /\ \A i \in known :
             LET d  == DayPrefix(plotted[i].time)
                 fp == Fingerprint(plotted[i])
             IN  /\ CountFP(ParsedLines(res.st.disk[d]), fp)
                      = CountFP(ParsedLines(disk[K1][d]), fp)
                 /\ CountFP(res.st.DayRows[d], fp) = 1
                 /\ d \in DOMAIN DayRows[K1] =>
                      CountFP(DayRows[K1][d], fp) = 1
        /\ known = dated =>
             /\ res.st.disk = disk[K1]
             /\ res.added = NoCounts
             /\ \A d \in DOMAIN DayRows[K1] :
                  res.st.DayRows[d] = DayRows[K1][d]

\* C5: after a process restart a collector starts with a new cursor (offset
\* 0, finished false) and its first request is for offset 0; re-ingesting a
\* record whose fingerprint is in the on-disk log of its day appends nothing
\* to the bucket and nothing to the log.
C5_RestartReingestNoOp == [][FreshCollector]_vars /\ []NoReadmission

\* after a restart the new collector's first page, fetched at offset 0,
\* held two dated records that the logs had already: nothing was added
C5_Witness ==
  /\ boots = 1
  /\ K1 \in DOMAIN Cursor
  /\ Cursor[K1].pages = 1 /\ Cursor[K1].offset = Limit
  /\ req[K1] = build_upstream_url(K1, Limit, 0)
  /\ ret.op = "ingest" /\ ret.cand = Limit /\ ret.added = NoCounts

\* the records of a page: the elements of tableData that are objects
NumRecords(td) == Cardinality({i \in 1..Len(td) : td[i].isdict})

\* a worker cycle of k that fails: the request or the parsing raises
FailedCycle(k) == FetchError(k) \/ PageNotJson(k) \/ BadShape(k)

\* any worker cycle of k
WorkerCycle(k) ==
  \/ \E td \in CursorPages : PageOk(k, td)
  \/ PageNoRecords(k)
  \/ \E td \in CursorPages : HeadOk(k, td)
  \/ HeadNoRecords(k)
  \/ FailedCycle(k)

\* a step that starts the backfill of k over: purge, reindex with reset, or
\* a new process
StartsOver(k) == Purge(k) \/ Reset(k) \/ boots' # boots

\* the cursor a status read (api_day_index with the device) returns
StatusCursor(cur, k) == ensure_structs(cur, k)[k]

\* C6: while the cursor is paginating its offset never decreases: a
\* successful page adds the number of its records, a failed cycle and the
\* no-records answer leave it, and no other step short of a purge, reset or
\* restart lowers it.
C6_OffsetMonotonic ==
  [][(K1 \in DOMAIN Cursor /\ ~Cursor[K1].finished /\ ~StartsOver(K1)) =>
       /\ K1 \in DOMAIN Cursor'
       /\ Cursor'[K1].offset >= Cursor[K1].offset
       /\ \A td \in CursorPages :
            PageOk(K1, td) =>
              Cursor'[K1].offset = Cursor[K1].offset + NumRecords(td)
       /\ (FailedCycle(K1) \/ PageNoRecords(K1)) =>
            Cursor'[K1].offset = Cursor[K1].offset]_vars

\* the cursor advanced by a full page, then a cycle failed: still paginating
\* at the same offset
C6_Witness ==
  /\ K1 \in DOMAIN Cursor
  /\ ~Cursor[K1].finished
  /\ Cursor[K1].offset = Limit /\ Cursor[K1].pages = 1
  /\ Cursor[K1].last_error = "RequestException"
  /\ req[K1] = build_upstream_url(K1, Limit, Limit)

C9_FinishedSticks ==
  [][(K1 \in DOMAIN Cursor /\ Cursor[K1].finished /\ ~StartsOver(K1)) =>
       (K1 \in DOMAIN Cursor' /\ Cursor'[K1].finished)]_vars

\* finished, and a head poll failed afterwards
C9_Witness ==
  /\ K1 \in DOMAIN Cursor
  /\ Cursor[K1].finished
  /\ Cursor[K1].last_error = "RequestException"
  /\ Cursor[K1].last_ok_ts = "before"
  /\ req[K1] = build_upstream_url(K1, Limit, 0)

\* C10: while finished is true every request of the worker is for offset 0,
\* and its cycles leave the cursor's offset and pages unchanged.
C10_HeadPollFrame ==
  [][(K1 \in DOMAIN Cursor /\ Cursor[K1].finished /\ WorkerCycle(K1)) =>
       /\ req'[K1] = build_upstream_url(K1, Limit, 0)
       /\ Cursor'[K1].offset = Cursor[K1].offset
       /\ Cursor'[K1].pages = Cursor[K1].pages]_vars

\* finished at an offset above 0, and the last step was a head poll that
\* ingested a page asked for at offset 0
C10_Witness ==
  /\ K1 \in DOMAIN Cursor
  /\ Cursor[K1].finished /\ Cursor[K1].offset > 0
  /\ Cursor[K1].last_ok_ts = "before"
  /\ ret.op = "ingest" /\ ret.cand > 0
  /\ req[K1] = build_upstream_url(K1, Limit, 0)

\* the store of k is as it was
StoreUnchanged(k) ==
  /\ Days'[k] = Days[k]
  /\ DayRows'[k] = DayRows[k]
  /\ DayFP'[k] = DayFP[k]
  /\ disk'[k] = disk[k]

\* C11: a cycle whose fetch raises records the error in last_error and
\* changes nothing else: offset, pages, finished, last_url and the store are
\* as before, the worker stays as it was, and the next request is for the
\* offset just asked for.
C11_FetchErrorFrame ==
  [][FetchError(K1) =>
       /\ Cursor'[K1].last_error = "RequestException"
       /\ Cursor'[K1].offset = Cursor[K1].offset
       /\ Cursor'[K1].pages = Cursor[K1].pages
       /\ Cursor'[K1].finished = Cursor[K1].finished
       /\ Cursor'[K1].last_url = Cursor[K1].last_url
       /\ (Cursor'[K1].last_ok_ts = "never") = (Cursor[K1].last_ok_ts = "never")
       /\ StoreUnchanged(K1)
       /\ thread' = thread /\ stop' = stop
       /\ req'[K1] = NextUrl(K1)
       /\ NextUrl(K1)' = NextUrl(K1)]_vars

\* the store holds a record, the cursor stands at offset Limit after one
\* page, and the last cycle failed
C11_Witness ==
  /\ K1 \in DOMAIN Cursor
  /\ Cursor[K1].last_error = "RequestException"
  /\ Cursor[K1].offset = Limit /\ Cursor[K1].pages = 1 /\ ~Cursor[K1].finished
  /\ Cursor[K1].last_ok_ts = "before"
  /\ thread[K1] = "alive"
  /\ "2025-10-16" \in DOMAIN DayRows[K1] /\ DayRows[K1]["2025-10-16"] # <<>>

\* a 200 answer to a pagination request whose body does not parse into
\* records: no JSON, JSON without data.tableData, data null or tableData no
\* list
MalformedPage(k) ==
  Paginating(k) /\ (PageNoTable(k) \/ PageNotJson(k) \/ BadShape(k))

\* C12: a successful answer whose body cannot be parsed into records is a
\* retryable error: the worker stays alive, the offset is not advanced and
\* finished is not set.
C12_MalformedIsRetryable ==
  [][MalformedPage(K1) =>
       /\ thread'[K1] = "alive"
       /\ Cursor'[K1].offset = Cursor[K1].offset
       /\ ~Cursor'[K1].finished]_vars

\* the worker of a paginating cursor is dead though nobody stopped it, and
\* no error is recorded
C12_Witness ==
  /\ K1 \in DOMAIN Cursor
  /\ thread[K1] = "dead" /\ ~stop[K1]
  /\ ~Cursor[K1].finished /\ Cursor[K1].last_error = PyNone
  /\ Cursor[K1].offset = Limit

\* the body of a 400 answer is the no-records signal: status "fail" and a
\* text with "no hay registros", upper or lower case
IsNoRecordsSignal(b) ==
  /\ b.isdict
  /\ b.status # PyNone /\ Lower(b.status) = "fail"
  /\ \/ b.error # PyNone /\ Contains(Lower(b.error), "no hay registros")
     \/ b.error = PyNone /\ b.message # PyNone
          /\ Contains(Lower(b.message), "no hay registros")

SignalOfBody == [b \in Bodies400 |-> IsNoRecordsSignal(b)]

\* C13: a pagination request answered by HTTP 400 with the no-records signal
\* sets finished, records no error, leaves offset and pages, and ingests
\* nothing.
C13_NoRecordsEndsBackfill ==
  [][\A b \in Bodies400 :
       (SignalOfBody[b] /\ Paginating(K1) /\ Page400(K1, b)) =>
         /\ Cursor'[K1].finished
         /\ Cursor'[K1].last_error = PyNone
         /\ Cursor'[K1].offset = Cursor[K1].offset
         /\ Cursor'[K1].pages = Cursor[K1].pages
         /\ Cursor'[K1].last_url = build_upstream_url(K1, Limit, Cursor[K1].offset)
         /\ StoreUnchanged(K1)
         /\ ret'.op # "ingest"
         /\ thread'[K1] = "alive"]_vars

\* one full page, then the no-records answer to the request for offset
\* Limit: finished at offset Limit after one page, no error
C13_Witness ==
  /\ K1 \in DOMAIN Cursor
  /\ Cursor[K1].finished /\ Cursor[K1].last_error = PyNone
  /\ Cursor[K1].offset = Limit /\ Cursor[K1].pages = 1
  /\ Cursor[K1].last_url = build_upstream_url(K1, Limit, Limit)
  /\ Cursor[K1].last_ok_ts = "now"

\* C14: whatever the sequence of failed requests, the worker stays alive and
\* asks again for the same URL as long as it is not stopped; it ends only
\* after its stop signal was set.
C14_NetworkErrorsNeverCrash ==
  /\ [][FetchError(K1) =>
          /\ thread'[K1] = "alive"
          /\ Running(K1)'
          /\ NextUrl(K1)' = req'[K1]]_vars
  /\ [][(thread[K1] = "alive" /\ thread'[K1] # "alive") => stop[K1]]_vars
  /\ [](thread[K1] = "dead" => stop[K1])

\* the worker is running after failed requests in both modes: an error is
\* recorded while the cursor is finished, at an offset above 0
C14_Witness ==
  /\ K1 \in DOMAIN Cursor
  /\ Running(K1)
  /\ Cursor[K1].last_error = "RequestException"
  /\ Cursor[K1].finished /\ Cursor[K1].offset = MaxOffset

\* the records k holds in memory that are in no line of the log of their day
Unwritten(k) ==
  {p \in Slots(k) : RowAt(k, p) \notin Range(ParsedLines(LogOf(k, p[1])))}

\* C15: when a log write fails during add_to_day_cache the worker keeps
\* running and the records of the batch are in memory, and records that are
\* in memory but in no log are reported in last_error unless a later ingest
\* wrote them.
C15_DiskFailureTolerated ==
  /\ [][\A td \in DiskPages, w \in 1..2 :
          IngestDiskFail(K1, td, w) =>
            /\ thread'[K1] = "alive"
            /\ \A i \in 1..Len(PlottedOfPage[td]) :
                 CountFP(DayRows'[K1][DayPrefix(PlottedOfPage[td][i].time)],
                         Fingerprint(PlottedOfPage[td][i])) = 1]_vars
  /\ []((K1 \in DOMAIN Cursor /\ Unwritten(K1) # {} /\ ret.op = "ingest") =>
          Cursor[K1].last_error # PyNone)

\* after a failed write a new worker ingested the same records again and
\* added none: they are in memory and in no log, and no error is recorded
C15_Witness ==
  /\ K1 \in DOMAIN Cursor
  /\ Unwritten(K1) # {}
  /\ thread[K1] = "alive"
  /\ ret.op = "ingest" /\ ret.cand > 0 /\ ret.added = NoCounts
  /\ Cursor[K1].last_error = PyNone

\* C16: however start_collector calls for one key interleave, at most one
\* worker is live at any time, and a call that begins while a worker is live
\* changes nothing.
C16_OneWorkerPerKey ==
  /\ [](Cardinality(LiveThreads(pool)) <= 1)
  /\ [][\A c \in Callers :
          (StartCheck(K1, c) /\ LiveThreads(pool) # {}) => pool' = pool]_vars

\* two workers are live and loop on different events; stop_collector has set
\* the registered one
C16_Witness ==
  \E t, u \in LiveThreads(pool) :
    /\ t # u
    /\ pool.threads[t].state = "bound" /\ pool.threads[u].state = "bound"
    /\ pool.threads[t].watch # pool.threads[u].watch
    /\ RegStop(pool)

\* C17: once stop_collector has set the stop signal, every worker of the key
\* that was live at that moment sees it at its next loop test and ends, so
\* that eventually none of them is live.
C17_StopReachesEveryWorker ==
  \A t \in 1..MaxThreads :
    (t \in pool.told) ~> (t \notin LiveThreads(pool))

\* a worker that was live when stop_collector ran loops on an event that
\* nobody set and the entry no longer holds
C17_Witness ==
  \E t \in pool.told :
    /\ pool.threads[t].state = "bound"
    /\ pool.threads[t].watch \notin pool.set
    /\ pool.threads[t].watch # pool.reg
    /\ RegStop(pool)

\* k holds no record in memory and no log file
Emptied(k) == DayRows[k] = NoDays /\ Days[k] = <<>> /\ disk[k] = NoDays

\* C18: purge_cache leaves the key with no in-memory record and no log
\* file, and no worker write follows the deletion: from purge_cache on (the
\* key has no cursor until start_collector or a reader makes one) the store
\* stays empty until start_collector is called again.
C18_PurgeStaysEmpty ==
  [][(K1 \notin DOMAIN Cursor /\ ~StartCollector(K1)) => Emptied(K1)']_vars

\* purge_cache ran while the worker was waiting for its answer; the worker
\* then ingested the page and left at its next loop test: no worker, the
\* signal still set, and records in memory and in a log
C18_Witness ==
  /\ thread[K1] = "dead" /\ stop[K1]
  /\ K1 \in DOMAIN Cursor /\ Cursor[K1] = NewCursor
  /\ ~Emptied(K1)
  /\ \E d \in DOMAIN disk[K1] : disk[K1][d] # <<>>

\* a worker cycle of k, or a start, stop or purge of k
KeyStep(k) ==
  \/ StartCollector(k) \/ StopCollector(k) \/ WorkerExit(k) \/ Purge(k)
  \/ \E td \in TwoPages : PageOk(k, td) \/ HeadOk(k, td)

\* the cursor, buckets, fingerprint sets and logs of j are as they were
KeyFrame(j) ==
  /\ (j \in DOMAIN Cursor') = (j \in DOMAIN Cursor)
  /\ j \in DOMAIN Cursor => Cursor'[j] = Cursor[j]
  /\ Days'[j] = Days[j] /\ DayRows'[j] = DayRows[j] /\ DayFP'[j] = DayFP[j]
  /\ disk'[j] = disk[j]

\* C19: a worker cycle, start, stop or purge of one key leaves the cursor,
\* buckets, fingerprint sets and disk logs of every other key unchanged, and
\* start_collector of a key while another key's worker is live gives a second
\* live worker.
C19_KeysIndependent ==
  [][\A k, j \in Keys :
       k # j =>
         /\ KeyStep(k) => KeyFrame(j)
         /\ (thread[k] = "alive" /\ StartCollector(j)) =>
              (thread'[k] = "alive" /\ thread'[j] = "alive")]_vars

\* a key that was never started and holds nothing in memory has a log with
\* a record, written by the worker of another key, whose worker is live
C19_Witness ==
  /\ K4 \notin DOMAIN Cursor /\ thread[K4] = "none" /\ DayRows[K4] = NoDays
  /\ \E d \in DOMAIN disk[K4] : disk[K4][d] # <<>>
  /\ thread[K3] = "alive"

\* the instant each since argument names, written as the records write theirs
InstantOf == (T2 :> T2) @@ ((T2 \o "Z") :> T2) @@ (T2Epoch :> T2) @@ (T1 :> T1)

\* record r is strictly later than the since argument
LaterThan(r, since) == StrLess(InstantOf[since], r.time)

\* C20: GetDay with since returns exactly the records of the day whose
\* timestamp is strictly later than since, each once: a record at since is
\* left out, every later one is returned.
C20_SinceIsStrict ==
  (ret.op = "day" /\ ret.since # "") =>
    LET bucket == IF ret.day \in DOMAIN DayRows[K1] THEN DayRows[K1][ret.day]
                  ELSE <<>>
        later  == {i \in 1..Len(bucket) : LaterThan(bucket[i], ret.since)}
    IN  /\ Range(ret.rows) = {bucket[i] : i \in later}
        /\ Len(ret.rows) = Cardinality(later)

\* the day holds a record at since and a later one; only the later one is
\* returned
C20_Witness ==
  /\ ret.op = "day" /\ ret.since = T2Epoch /\ ret.day = "2025-10-16"
  /\ \E i, j \in 1..Len(DayRows[K1]["2025-10-16"]) :
       /\ DayRows[K1]["2025-10-16"][i].time = T2
       /\ DayRows[K1]["2025-10-16"][j].time = T1
       /\ ret.rows = <<DayRows[K1]["2025-10-16"][j]>>

\* days is in ascending order and holds no day twice
StrictlyAscending(days) ==
  \A i \in 1..(Len(days) - 1) : StrLess(days[i], days[i + 1])

\* C21: the days /api/day-index returns for a device are in ascending order,
\* hold no day twice, and are the days that have a log file on disk together
\* with the days held in memory.
C21_ListDaysIsDiskAndMemory ==
  ret.op = "index" =>
    /\ StrictlyAscending(ret.days)
    /\ Range(ret.days) = DOMAIN disk[K1] \cup DOMAIN DayRows[K1]

\* the index lists a day cut out of a file name: no log and no bucket has it
C21_Witness ==
  /\ ret.op = "index"
  /\ TBad \in DOMAIN disk[K1]
  /\ SubSeq(LogName(TBad), 1, DayLen) \in Range(ret.days)
  /\ SubSeq(LogName(TBad), 1, DayLen) \notin DOMAIN disk[K1] \cup DOMAIN DayRows[K1]

\* td is a page of two different plottable records with one fingerprint
Collides(td) ==
  /\ Len(td) = 2 /\ td[1] # td[2]
  /\ Plottable(td[1]) /\ Plottable(td[2])
  /\ Fingerprint(process_row(td[1])) = Fingerprint(process_row(td[2]))

CollidingPages == {td \in PairPages : Collides(td)}

\* of a colliding page: its first record as stored, the line written for
\* it, its fingerprint and its day
FirstOfPage ==
  [td \in CollidingPages |->
     LET first == process_row(td[1]) IN
     [row |-> first, line |-> JsonDumps(first), fp |-> Fingerprint(first),
      day |-> DayPrefix(first.time)]]

\* C22: when the two records of a page have the same timestamp and envio_n
\* and the store does not know that fingerprint, the cycle adds exactly one
\* record to the day of the timestamp, in memory and in the log, and it is
\* the first of the page.
C22_FirstOfCollisionKept ==
  [][ret'.op = "ingest" =>
       \A td \in CollidingPages :
         LET first == FirstOfPage[td]
             d     == first.day
             was   == load_day_from_disk(StoreOf(K1), d).DayRows[d]
         IN  (/\ PageOk(K1, td) \/ HeadOk(K1, td)
              /\ first.fp \notin KnownFP(K1, d))
             => /\ DayRows'[K1][d] = Append(was, first.row)
                /\ disk'[K1][d] = Append(LogOf(K1, d), first.line)
                /\ ret'.added = (d :> 1)]_vars

\* the page held the record with the other readings first: it is the one in
\* the bucket and in the log, and the record that came second is in neither
C22_Witness ==
  /\ ret.op = "ingest" /\ ret.cand = 2 /\ ret.added = ("2025-10-16" :> 1)
  /\ "2025-10-16" \in DOMAIN DayRows[K1]
  /\ process_row(W2) \in Range(DayRows[K1]["2025-10-16"])
  /\ process_row(W1) \notin Range(DayRows[K1]["2025-10-16"])
  /\ JsonDumps(process_row(W2)) \in Range(disk[K1]["2025-10-16"])
  /\ JsonDumps(process_row(W1)) \notin Range(disk[K1]["2025-10-16"])

\* C24: when start_collector(reset=True) returns, whether or not a worker
\* was live before, the key's cache is empty, its cursor is new (offset 0,
\* not finished) and a worker of the key is live and goes on fetching: it is
\* alive and its stop signal is not set.
C24_ResetRestartsCollection ==
  [][Reset(K1) =>
       /\ Emptied(K1)'
       /\ K1 \in DOMAIN Cursor' /\ Cursor'[K1] = NewCursor
       /\ Running(K1)']_vars

\* the reset met a live worker, which has since left at its loop test: the
\* cache is empty, the cursor new, and no worker of the key is left
C24_Witness ==
  /\ thread[K1] = "dead" /\ stop[K1]
  /\ K1 \in DOMAIN Cursor /\ Cursor[K1] = NewCursor
  /\ Emptied(K1)
  /\ req[K1] # <<>>

\* C25: stop_collector and the worker's exit leave the cursor as the last
\* completed cycle left it; start_collector without reset for a key whose
\* worker has ended starts a worker on that same cursor; and every new
\* request of a paginating worker is for the cursor's offset, so the pages
\* after a stop and a start follow the pages before them with none skipped.
C25_StopKeepsProgress ==
  [][/\ (StopCollector(K1) \/ WorkerExit(K1)) => Cursor' = Cursor
     /\ (StartCollector(K1) /\ thread[K1] = "dead" /\ K1 \in DOMAIN Cursor)
          => (Running(K1)' /\ Cursor'[K1] = Cursor[K1])
     /\ (Paginating(K1) /\ req'[K1] # req[K1] /\ req'[K1] # <<>>)
          => req'[K1] = build_upstream_url(K1, Limit, Cursor[K1].offset)]_vars

\* the worker has left after stop_collector, one full page into the backfill:
\* the cursor holds that page's progress
C25_Witness ==
  /\ thread[K1] = "dead" /\ stop[K1]
  /\ K1 \in DOMAIN Cursor
  /\ Cursor[K1].offset = Limit /\ Cursor[K1].pages = 1 /\ ~Cursor[K1].finished
  /\ req[K1] = build_upstream_url(K1, Limit, 0)

\* no fingerprint is twice in seq
DistinctFP(rows) ==
  \A i, j \in 1..Len(rows) : i # j => Fingerprint(rows[i]) # Fingerprint(rows[j])

\* C26: however a reader's lazy load and the worker's add_to_day_cache
\* interleave for one key and day, once the ingest is complete every record
\* it counted as added is in the day's in-memory bucket, and no record is
\* twice in the bucket or twice in the day's log.
C26_LoadIngestRaceFree ==
  /\ cyc[K1].at = "loop" =>
       \A r \in cyc[K1].counted :
         /\ DayPrefix(r.time) \in DOMAIN DayRows[K1]
         /\ r \in Range(DayRows[K1][DayPrefix(r.time)])
  /\ \A d \in DOMAIN DayRows[K1] : DistinctFP(DayRows[K1][d])
  /\ \A d \in DOMAIN disk[K1] : DistinctFP(ParsedLines(disk[K1][d]))

\* the ingest counted a record that the reader's late store has dropped from
\* the bucket, and wrote another record to the log a second time
C26_Witness ==
  /\ cyc[K1].at = "loop" /\ rd.pc = "idle"
  /\ \E r \in cyc[K1].counted :
       /\ RaceDay \in DOMAIN DayRows[K1]
       /\ r \notin Range(DayRows[K1][RaceDay])
       /\ JsonDumps(r) \notin Range(disk[K1][RaceDay])
  /\ ~DistinctFP(ParsedLines(disk[K1][RaceDay]))

\* what load_day_from_disk builds from the log of key k and day d
RebuiltFromLog(k, d) ==
  LoadLines(IF d \in DOMAIN disk[k] THEN disk[k][d] ELSE <<>>, <<>>, {}).rows

\* seq t is seq s with lines appended
GrowsFrom(s, t) == Len(s) <= Len(t) /\ SubSeq(t, 1, Len(s)) = s

\* C27: after every completed add_to_day_cache, readers having run or not,
\* the bucket of each loaded day is the sequence load_day_from_disk builds
\* from the day's log; and (no step here is a purge) every step leaves each
\* log as it was or with lines appended.
C27_LogIsSourceOfTruth ==
  [][/\ ret'.op = "ingest" =>
          \A d \in DOMAIN DayRows'[K1] : DayRows'[K1][d] = RebuiltFromLog(K1, d)'
     /\ \A d \in DOMAIN disk[K1] :
          d \in DOMAIN disk'[K1] /\ GrowsFrom(disk[K1][d], disk'[K1][d])]_vars

\* an ingest has completed, and the bucket of the day holds the records of
\* the log in another order: a read of the day sorted it in place
C27_Witness ==
  /\ ret.op = "ingest"
  /\ RaceDay \in DOMAIN DayRows[K1]
  /\ DayRows[K1][RaceDay] # RebuiltFromLog(K1, RaceDay)
  /\ Range(DayRows[K1][RaceDay]) = Range(RebuiltFromLog(K1, RaceDay))
  /\ Len(DayRows[K1][RaceDay]) = Len(RebuiltFromLog(K1, RaceDay))

\* C28: a read of a day that is already in memory, with or without since,
\* leaves the day's bucket (content and order), its fingerprint set and the
\* logs as they were.
C28_ReadersAreReadOnly ==
  [][\A day \in DayArgs, since \in SinceArgs :
       (day \in DOMAIN DayRows[K1] /\ GetDay(K1, day, since)) =>
         /\ DayRows'[K1] = DayRows[K1]
         /\ DayFP'[K1] = DayFP[K1]
         /\ disk' = disk]_vars

\* a read without since has been served, and the bucket is in time order
\* where the log (arrival order) has the later record first
C28_Witness ==
  /\ ret.op = "day" /\ ret.since = ""
  /\ RaceDay \in DOMAIN DayRows[K1]
  /\ DayRows[K1][RaceDay] = <<process_row(W3), process_row(W1)>>
  /\ RebuiltFromLog(K1, RaceDay) = <<process_row(W1), process_row(W3)>>

\* record r has a latitude, a longitude and a PM2.5 value
HasReadings(r) == r.lat # PyNone /\ r.lon # PyNone /\ r.pm25 # PyNone

\* C29: every record of every day bucket, and every record written to a day
\* log, has a parsed latitude, longitude and PM2.5 value.
C29_StoredRecordsArePlottable ==
  \A k \in Keys :
    /\ \A d \in DOMAIN DayRows[k] :
         \A i \in 1..Len(DayRows[k][d]) : HasReadings(DayRows[k][d][i])
    /\ \A d \in DOMAIN disk[k] :
         \A i \in 1..Len(disk[k][d]) :
           disk[k][d][i].valid /\ HasReadings(JsonLoads(disk[k][d][i]))

\* a page of two rows, one of them without PM2.5 or without a full pair of
\* coordinates, has been ingested and one record of it stored
C29_Witness ==
  /\ ret.op = "ingest" /\ ret.cand = 1
  /\ Cursor[K1].offset = 2 /\ Cursor[K1].pages = 1
  /\ RaceDay \in DOMAIN disk[K1] /\ Len(disk[K1][RaceDay]) = 1
  /\ Len(DayRows[K1][RaceDay]) = 1

\* both coordinates of raw row w as SIM7600G gives them, and as the station
\* metadata gives them
FromA(w) == <<to_float(w.sim_lat), to_float(w.sim_lon)>>

FromB(w) == <<to_float(w.meta_lat), to_float(w.meta_lon)>>

\* C30: the coordinates made of a raw row are both those of SIM7600G when both
\* of them parse, and both those of the station metadata otherwise, never one
\* of each: a row whose chosen pair lacks a coordinate is not stored, and a
\* row that is stored has the chosen pair.
C30_CoordsFromOneSource ==
  cyc[K1].at = "write" /\ cyc[K1].page \in CoordPages =>
    LET w    == cyc[K1].page[1]
        pair == IF FromA(w)[1] # PyNone /\ FromA(w)[2] # PyNone
                THEN FromA(w) ELSE FromB(w)
    IN  /\ (pair[1] = PyNone \/ pair[2] = PyNone) => DOMAIN cyc[K1].added = {}
        /\ DOMAIN cyc[K1].added # {} =>
             LET rows == DayRows[K1][RaceDay] IN
               <<rows[Len(rows)].lat, rows[Len(rows)].lon>> = pair

\* a row with the latitude of SIM7600G alone and both coordinates of the
\* station metadata has been stored with the metadata's pair
C30_Witness ==
  /\ cyc[K1].at = "write" /\ cyc[K1].page \in CoordPages
  /\ cyc[K1].page[1].sim_lat = "-33.4" /\ cyc[K1].page[1].sim_lon = PyNone
  /\ DOMAIN cyc[K1].added = {RaceDay}
  /\ DayRows[K1][RaceDay][1].lat = "-33.0"
  /\ DayRows[K1][RaceDay][1].lon = "-70.0"

\* text t starts with a calendar day written YYYY-MM-DD
StartsWithDate(t) ==
  /\ t # PyNone /\ Len(t) >= DayLen
  /\ AllDigits(SubSeq(t, 1, 4)) /\ CharAt(t, 5) = "-"
  /\ AllDigits(SubSeq(t, 6, 7)) /\ CharAt(t, 8) = "-"
  /\ AllDigits(SubSeq(t, 9, 10))

\* C31: a record whose timestamp is missing or is no date is in no bucket and
\* in no log, and no day exists for it: every day of the store is a calendar
\* day and every stored record carries a timestamp that starts with one.
C31_UndatedRecordsExcluded ==
  /\ \A d \in DOMAIN DayRows[K1] \cup DOMAIN disk[K1] \cup Range(Days[K1]) :
       StartsWithDate(d)
  /\ \A d \in DOMAIN DayRows[K1] :
       \A i \in 1..Len(DayRows[K1][d]) : StartsWithDate(DayRows[K1][d][i].time)
  /\ \A d \in DOMAIN disk[K1] :
       \A r \in Range(ParsedLines(disk[K1][d])) : StartsWithDate(r.time)

\* the record whose timestamp reads "sin dato" is in a bucket and in a log of
\* that name, and the name is among the days of the key
C31_Witness ==
  /\ TBad \in DOMAIN DayRows[K1] /\ process_row(W8) \in Range(DayRows[K1][TBad])
  /\ TBad \in DOMAIN disk[K1] /\ JsonDumps(process_row(W8)) \in Range(disk[K1][TBad])
  /\ TBad \in Range(Days[K1])

\* C32: load_day_from_disk reads a log that holds malformed lines to its end:
\* what it has built when the file is read are the records of the lines that
\* parse, in file order, without those whose fingerprint an earlier line had,
\* and the fingerprints of these records.
C32_MalformedLinesSkipped ==
  rd.pc = "loaded" =>
    /\ rd.rows = FirstOccurrences(LogOf(K1, rd.day))
    /\ rd.fps = {Fingerprint(r) : r \in Range(ParsedLines(LogOf(K1, rd.day)))}

\* the log has a malformed line with a well-formed line after it, and the
\* load has read the record of that line
C32_Witness ==
  /\ rd.pc = "loaded"
  /\ \E i, j \in 1..Len(LogOf(K1, rd.day)) :
       /\ i < j
       /\ ~LogOf(K1, rd.day)[i].valid
       /\ LogOf(K1, rd.day)[j].valid
       /\ \A h \in 1..(i - 1) : LogOf(K1, rd.day)[h] # LogOf(K1, rd.day)[j]
       /\ JsonLoads(LogOf(K1, rd.day)[j]) \in Range(rd.rows)

\* the bucket of day d as add_to_day_cache finds it: the one in memory, or
\* the one it loads from the log
BucketOrLog(k, d) ==
  IF d \in DOMAIN DayRows[k] THEN DayRows[k][d] ELSE FirstOccurrences(LogOf(k, d))

\* C33: the counts add_to_day_cache returns are, day by day, the number of
\* records the call appended to the day's bucket and to the day's log, the
\* same records in both; a day without a new record is not in the result and
\* its bucket and log are as before.
C33_CountsAreGrowth ==
  [][ret'.op = "ingest" =>
       LET added == ret'.added IN
         /\ \A d \in DOMAIN added :
              /\ added[d] > 0
              /\ d \in DOMAIN DayRows'[K1] /\ d \in DOMAIN disk'[K1]
              /\ DayRows'[K1][d] =
                   BucketOrLog(K1, d) \o LastN(DayRows'[K1][d], added[d])
              /\ Len(DayRows'[K1][d]) = Len(BucketOrLog(K1, d)) + added[d]
              /\ disk'[K1][d] =
                   LogOf(K1, d) \o DumpAll(LastN(DayRows'[K1][d], added[d]))
         /\ \A d \in (DOMAIN DayRows'[K1] \cup DOMAIN disk'[K1]) \ DOMAIN added :
              /\ LogOf(K1, d)' = LogOf(K1, d)
              /\ d \in DOMAIN DayRows'[K1] => DayRows'[K1][d] = BucketOrLog(K1, d)]_vars

\* a page of two records of one day was ingested, one of them known before:
\* the count of the day is 1
C33_Witness ==
  /\ ret.op = "ingest" /\ ret.cand = 2
  /\ DOMAIN ret.added = {RaceDay} /\ ret.added[RaceDay] = 1
  /\ Len(DayRows[K1][RaceDay]) = 2
  /\ Len(disk[K1][RaceDay]) = 2

\* no line is twice in log
NoRepeatedLine(log) == \A i, j \in 1..Len(log) : i # j => log[i] # log[j]

V1Log(d) == IF d \in DOMAIN v1.disk THEN v1.disk[d] ELSE <<>>

V1Rows(d) == IF d \in DOMAIN v1.cache THEN v1.cache[d] ELSE <<>>

\* C34: an ingest of serverMap.py appends to each day's file the rows it has
\* just added to the day's list in memory and no other row, and no file ever
\* holds a line twice.
C34_V1WritesOnlyNewRows ==
  [][/\ \A d \in DOMAIN v1'.disk : NoRepeatedLine(v1'.disk[d])
     /\ v1'.boots = v1.boots =>
          \A d \in DOMAIN v1'.disk :
            /\ d \in DOMAIN v1'.cache
            /\ v1'.disk[d] =
                 V1Log(d) \o DumpAll(LastN(v1'.cache[d],
                                           Len(v1'.cache[d]) - Len(V1Rows(d))))]_vars

\* a day's list holds every record once and the day's file holds the line
\* of one of them twice
C34_Witness ==
  \E d \in DOMAIN v1.disk :
    /\ d \in DOMAIN v1.cache
    /\ \A i, j \in 1..Len(v1.cache[d]) : i # j => v1.cache[d][i] # v1.cache[d][j]
    /\ ~NoRepeatedLine(v1.disk[d])
    /\ Len(v1.disk[d]) > Len(v1.cache[d])

\* C35: when start_collector returns, a worker of the key is live and goes
\* on fetching as long as nobody stops or purges the key: it is alive and its
\* stop signal is not set, also when stop_collector ran just before and the
\* worker it told to stop has not ended yet.
C35_StartMeansRunning ==
  [][StartCollector(K1) => Running(K1)']_vars

\* start_collector has just returned: the worker it found alive has its stop
\* signal set and will end at its next loop test, and no other was started
C35_Witness ==
  /\ ret.op = "start"
  /\ thread[K1] = "alive" /\ stop[K1]
  /\ cyc[K1].at = "loop"

\* C36: after a worker cycle that fetched and ingested an answer, in
\* pagination or in head polling, the cursor's last_error is None and its
\* last_ok_ts is the time of this cycle.
C36_SuccessClearsError ==
  [][ret'.op = "ingest" =>
       /\ Cursor'[K1].last_error = PyNone
       /\ Cursor'[K1].last_ok_ts = "now"]_vars

\* a head poll has just fetched and ingested an answer, and the cursor still
\* shows the error of an earlier cycle and the time of an earlier success
C36_Witness ==
  /\ ret.op = "ingest"
  /\ K1 \in DOMAIN Cursor /\ Cursor[K1].finished
  /\ Cursor[K1].last_error = "RequestException"
  /\ Cursor[K1].last_ok_ts = "before"
  /\ req[K1] = build_upstream_url(K1, Limit, 0)

\* day d of key k has a record in memory or a log file
HasData(k, d) ==
  \/ d \in DOMAIN DayRows[k] /\ DayRows[k][d] # <<>>
  \/ d \in DOMAIN disk[k]

\* C37: every day of Days[key], and every day /api/day-index returns, has a
\* record in its bucket or a log file; a read of a day without data adds no
\* day.
C37_ListedDaysHaveData ==
  /\ \A d \in Range(Days[K1]) : HasData(K1, d)
  /\ ret.op = "index" => \A d \in Range(ret.days) : HasData(K1, d)

\* /api/day-index returns a day that was only ever asked for by a reader:
\* its bucket is empty and it has no log file
C37_Witness ==
  /\ ret.op = "index"
  /\ \E d \in DayArgs :
       /\ d \in Range(ret.days)
       /\ d \in DOMAIN DayRows[K1] /\ DayRows[K1][d] = <<>>
       /\ d \notin DOMAIN disk[K1]

\* the record stored for each row the device sends
StoredOf == [w \in Range(Arrivals) |-> process_row(w)]

\* the record of upstream row w is in a bucket of the default device
InStore(w) ==
  \E d \in DOMAIN DayRows[K1] : StoredOf[w] \in Range(DayRows[K1][d])

\* C38: with an upstream that lists newest first and only adds at the head,
\* and cycles that are not put off forever, every record the upstream holds
\* is eventually in the store, however many arrive during the backfill or
\* between two head polls.
C38_NoRecordMissed ==
  \A w \in Range(Arrivals) : (w \in Range(up.rows)) ~> InStore(w)

\* the backfill is over, the upstream holds one record more than a page, and
\* the oldest of them, which no head poll asks for, is not in the store
C38_Witness ==
  /\ HeadPolling(K1)
  /\ Len(up.rows) = Limit + 1
  /\ ~InStore(up.rows[Limit + 1])
  /\ \A i \in 1..Limit : InStore(up.rows[i])

\* C39: with a finite upstream dataset and cycles that are not put off
\* forever, the worker reaches finished = true and stays there, also when the
\* dataset is empty or holds a whole number of pages.
C39_BackfillTerminates ==
  <>[](K1 \in DOMAIN Cursor /\ Cursor[K1].finished)

\* the upstream holds one full page: the worker read it, asked for the next
\* page, and the answer past the last record ended the backfill
C39_Witness ==
  /\ K1 \in DOMAIN Cursor /\ Cursor[K1].finished
  /\ Len(up.rows) = Limit /\ Cursor[K1].offset = Limit
  /\ req[K1] = build_upstream_url(K1, Limit, Limit)
  /\ \A i \in 1..Limit : InStore(up.rows[i])

\* key k has had no page stored by its worker
NothingWritten(k) == k \notin DOMAIN Cursor \/ Cursor[k].pages = 0

\* C40: distinct keys never share on-disk state, also when a component holds
\* a '_': two different keys have two different directories, and a key whose
\* worker has written nothing has no records to load, whatever the workers of
\* other keys wrote.
C40_KeysHaveOwnLogs ==
  \A k \in Keys :
    /\ \A j \in Keys : j # k => cache_dir(j) # cache_dir(k)
    /\ (boots = 0 /\ NothingWritten(k)) =>
         \A d \in DOMAIN DayRows[k] : DayRows[k][d] = <<>>

\* the worker of ("18", "HIRI_01", "datos") stored a page, the key
\* ("18_HIRI", "01", "datos") was never started, and a read of its day
\* loaded the other device's records as its own
C40_Witness ==
  /\ boots = 0
  /\ K3 \in DOMAIN Cursor /\ Cursor[K3].pages = 1
  /\ thread[K4] = "none" /\ NothingWritten(K4)
  /\ ret.op = "day" /\ ret.rows # <<>>
  /\ \E d \in DOMAIN DayRows[K4] :
       /\ DayRows[K4][d] # <<>>
       /\ DayRows[K4][d] = DayRows[K3][d]

====
